---- MODULE Spec2Model ----
(***************************************************************************)
(* Generation orchestration of InstaGen AI: generateImage with its         *)
(* rate-limit retry and prompt-repair retry, the Gemini and DALL-E         *)
(* provider calls and the prompt-repair helper (services/geminiService,    *)
(* the variant that takes the credentials as parameters), and the          *)
(* component that drives them (App, Controls).                             *)
(*                                                                         *)
(* Strings are sequences of atoms (an atom is a character or a fixed       *)
(* literal piece of a template string).  An absent (undefined) number is   *)
(* 0, an absent error message is the empty string: the code only tests     *)
(* them for truthiness.                                                    *)
(***************************************************************************)
EXTENDS Integers, Sequences, FiniteSets, TLC

VARIABLES pc, calls, trace, caught, result, lastReply, helpers, ui, watermark

vars == <<pc, calls, trace, caught, result, lastReply, helpers, ui, watermark>>

\* the state of one generateImage call
imageVars == <<pc, calls, trace, caught, result, lastReply>>

\* what a step of generateImage leaves alone
callerVars == <<helpers, ui, watermark>>

(* ------------------------------ bounds -------------------------------- *)

\* longest prompt / model text, in atoms
MaxLen == 2

(* ------------------------------ strings ------------------------------- *)

Char == {"a", " "}

RECURSIVE StringsUpTo(_)
StringsUpTo(n) ==
    IF n = 0 THEN {<<>>}
    ELSE LET shorter == StringsUpTo(n - 1)
         IN  shorter \cup {Append(s, c) : s \in {t \in shorter : Len(t) = n - 1}, c \in Char}

Texts == StringsUpTo(MaxLen)

RECURSIVE TrimStart(_)
TrimStart(s) == IF s # <<>> /\ Head(s) = " " THEN TrimStart(Tail(s)) ELSE s

RECURSIVE TrimEnd(_)
TrimEnd(s) ==
    IF s # <<>> /\ s[Len(s)] = " " THEN TrimEnd(SubSeq(s, 1, Len(s) - 1)) ELSE s

\* String.prototype.trim
Trim(s) == TrimEnd(TrimStart(s))

\* String.prototype.includes, for a marker that is one atom of the message
Includes(s, marker) == \E i \in DOMAIN s : s[i] = marker

\* an optional string argument: present = FALSE models undefined
Undefined == [present |-> FALSE, text |-> <<>>]
Str(t) == [present |-> TRUE, text |-> t]

\* mutation: an empty string counts as a key
TruthyPresentOnly(o) == o.present

\* JavaScript truthiness of an optional string
Truthy(o) == o.present /\ o.text # <<>>

(* ------------------------------ inputs -------------------------------- *)

AspectRatio == {"1:1", "3:4", "9:16"}

StyleNone == <<>>
ImageStyle == {StyleNone, <<"S">>}

GeminiModels == {"gemini-2.5-flash-image", "gemini-3-pro-image-preview"}
ImageModel == GeminiModels \cup {"dall-e-3"}

Prompts == Texts

ApiKeys == {<<>>, <<" ">>, <<" ", "k">>}

OpenAiKeys == {Undefined, Str(<<>>), Str(<<" ">>), Str(<<"k", " ">>)}

(* ------------------------------ errors -------------------------------- *)

Error(msg) == [status |-> 0, code |-> 0, message |-> msg]

\* the placeholder where no error has occurred
NoError == Error(<<"(no error)">>)

MissingKeyError == Error(<<"API Key is missing. Please provide a valid Gemini API Key.">>)
NoImageError == Error(<<"No image data found in the response.">>)
HighTrafficError ==
    Error(<<"High traffic detected (Quota Exceeded). Please wait a minute before trying again.">>)
InvalidKeyError == Error(<<"API Key is invalid or missing. Please log in again.">>)
OpenAiKeyPromptError == Error(<<"Please enter your OpenAI API Key to use DALL-E 3.">>)
OpenAiKeyRequiredError == Error(<<"OpenAI API Key is required for DALL-E 3 generation.">>)
NoOpenAiImageError == Error(<<"No image data returned from OpenAI.">>)

\* what the Gemini SDK call can throw: each classifying feature alone, the
\* features in conflict, and errors that carry none of them
ProviderErrors ==
    { [status |-> 429, code |-> 0,   message |-> <<>>],
      [status |-> 0,   code |-> 429, message |-> <<>>],
      [status |-> 0,   code |-> 0,   message |-> <<"x", "429">>],
      [status |-> 0,   code |-> 0,   message |-> <<"Quota exceeded">>],
      [status |-> 0,   code |-> 0,   message |-> <<"RESOURCE_EXHAUSTED", "x">>],
      [status |-> 400, code |-> 0,   message |-> <<>>],
      [status |-> 0,   code |-> 0,   message |-> <<"x", "API Key not found">>],
      [status |-> 400, code |-> 0,   message |-> <<"x", "429">>],
      [status |-> 400, code |-> 429, message |-> <<"API Key not found">>],
      [status |-> 429, code |-> 0,   message |-> <<"API Key not found">>],
      [status |-> 500, code |-> 0,   message |-> <<"x">>],
      [status |-> 0,   code |-> 0,   message |-> <<>>] }

\* services/geminiService generateImage: const isRateLimit = ...
IsRateLimit(error) ==
    \/ error.status = 429
    \/ error.code = 429
    \/ /\ error.message # <<>>
       /\ \/ Includes(error.message, "429")
          \/ Includes(error.message, "Quota exceeded")
          \/ Includes(error.message, "RESOURCE_EXHAUSTED")

\* services/geminiService generateImage: the 400 / "API Key not found" test
IsInvalidKey(error) ==
    \/ error.status = 400
    \/ (error.message # <<>> /\ Includes(error.message, "API Key not found"))

(* --------------------------- provider replies -------------------------- *)

\* a part of candidates[0].content.parts
TextPart == [inline |-> FALSE, mimeType |-> <<>>, data |-> <<>>]
InlinePart(mime, d) == [inline |-> TRUE, mimeType |-> mime, data |-> d]

PngPart == InlinePart(<<"image/", "png">>, <<"P">>)
JpegPart == InlinePart(<<"image/", "jpeg">>, <<"J">>)
PdfPart == InlinePart(<<"application/", "pdf">>, <<"D">>)
NoMimePart == InlinePart(<<>>, <<"N">>)

\* hasParts = FALSE: candidates, content or parts is absent
GeminiResponses ==
    { [hasParts |-> FALSE, parts |-> <<>>],
      [hasParts |-> TRUE,  parts |-> <<>>],
      [hasParts |-> TRUE,  parts |-> <<TextPart, PdfPart, NoMimePart>>],
      [hasParts |-> TRUE,  parts |-> <<PngPart>>],
      [hasParts |-> TRUE,  parts |-> <<TextPart, JpegPart, PngPart>>] }

\* longest list of parts in a response
MaxParts == 3

PartKinds == {TextPart, PngPart, JpegPart, PdfPart, NoMimePart}

RECURSIVE PartListsUpTo(_)
PartListsUpTo(n) ==
    IF n = 0 THEN {<<>>}
    ELSE LET shorter == PartListsUpTo(n - 1)
         IN  shorter \cup
             {Append(ps, k) : ps \in {q \in shorter : Len(q) = n - 1}, k \in PartKinds}

\* every response with at most MaxParts parts
AnyGeminiReplies ==
    { [throws |-> FALSE, error |-> NoError, response |-> [hasParts |-> FALSE, parts |-> <<>>]] }
    \cup { [throws |-> FALSE, error |-> NoError, response |-> [hasParts |-> TRUE, parts |-> ps]] :
             ps \in PartListsUpTo(MaxParts) }

GeminiReplies ==
    { [throws |-> TRUE, error |-> e, response |-> [hasParts |-> FALSE, parts |-> <<>>]] :
        e \in ProviderErrors }
    \cup { [throws |-> FALSE, error |-> NoError, response |-> r] : r \in GeminiResponses }

\* String.prototype.startsWith('image/') on a MIME type
IsImageMime(mime) == mime # <<>> /\ Head(mime) = "image/"

\* mutation: the string is built without the data: scheme
DataUriNoScheme(mime, d) == mime \o <<";base64,">> \o d

\* `data:${mimeType};base64,${data}`
DataUri(mime, d) == <<"data:">> \o mime \o <<";base64,">> \o d

\* mutation: the loop takes the first part with inline data, whatever its type
RECURSIVE FirstImageAnyInline(_)
FirstImageAnyInline(parts) ==
    IF parts = <<>> THEN <<>>
    ELSE LET part == Head(parts)
         IN  IF part.inline /\ part.mimeType # <<>>
             THEN DataUri(part.mimeType, part.data)
             ELSE FirstImageAnyInline(Tail(parts))

\* the loop over parts: the data URI of the first image part, <<>> (null) if none
RECURSIVE FirstImage(_)
FirstImage(parts) ==
    IF parts = <<>> THEN <<>>
    ELSE LET part == Head(parts)
         IN  IF part.inline /\ part.mimeType # <<>> /\ IsImageMime(part.mimeType)
             THEN DataUri(part.mimeType, part.data)
             ELSE FirstImage(Tail(parts))

ExtractImage(response) == IF response.hasParts THEN FirstImage(response.parts) ELSE <<>>

\* the text model's reply to generateContent: it throws, or response.text is
\* undefined, or response.text is a string
TextModelError == [status |-> 429, code |-> 0, message |-> <<"x", "429">>]

TextReplies ==
    { [throws |-> TRUE, error |-> TextModelError, text |-> Undefined],
      [throws |-> TRUE, error |-> Error(<<"x">>), text |-> Undefined],
      [throws |-> FALSE, error |-> NoError, text |-> Undefined] }
    \cup { [throws |-> FALSE, error |-> NoError, text |-> Str(t)] : t \in Texts }

\* mutation: response.text || originalPrompt
TextOrOriginalNoTrim(text, originalPrompt) ==
    IF text.present /\ text.text # <<>> THEN text.text ELSE originalPrompt

\* mutation: response.text?.trim() ?? originalPrompt
TextOrOriginalNullish(text, originalPrompt) ==
    IF text.present THEN Trim(text.text) ELSE originalPrompt

\* response.text?.trim() || originalPrompt
TextOrOriginal(text, originalPrompt) ==
    IF text.present /\ Trim(text.text) # <<>> THEN Trim(text.text) ELSE originalPrompt

\* what fixBlockedPrompt returns once the text model has replied
FixResult(reply, originalPrompt) ==
    IF reply.throws THEN originalPrompt ELSE TextOrOriginal(reply.text, originalPrompt)

\* the OpenAI endpoint's reply: fetch rejects, or an HTTP response with JSON
OpenAiReplies ==
    { [rejects |-> TRUE,  ok |-> FALSE, errorMessage |-> <<>>, b64 |-> <<>>],
      [rejects |-> FALSE, ok |-> FALSE, errorMessage |-> <<>>, b64 |-> <<>>],
      [rejects |-> FALSE, ok |-> FALSE, errorMessage |-> <<"Rate limit 429">>, b64 |-> <<>>],
      [rejects |-> FALSE, ok |-> TRUE,  errorMessage |-> <<>>, b64 |-> <<>>],
      [rejects |-> FALSE, ok |-> TRUE,  errorMessage |-> <<>>, b64 |-> <<"B">>] }

FetchError == Error(<<"Failed to fetch">>)

(* ------------------------- observable events --------------------------- *)

\* one entry of trace: a request sent to a provider, a timed wait, an error
\* reaching the catch block, or a call or return of the repair helper
Event(op, prompt, ratio, model, key, size, ms, error) ==
    [op |-> op, prompt |-> prompt, ratio |-> ratio, model |-> model, key |-> key,
     size |-> size, ms |-> ms, error |-> error]

\* ai.models.generateContent({model, contents: {parts: [{text: promptToSend}]}, ...})
ImageRequest(promptToSend, ratio, model, key) ==
    Event("image", promptToSend, ratio, model, key, "-", 0, NoError)

\* the back-off of the rate-limit retry, in milliseconds
WaitMs == 5000

\* wait(ms)
WaitEvent(ms) == Event("wait", <<>>, "-", "-", <<>>, "-", ms, NoError)

\* fixBlockedPrompt(originalPrompt, apiKey) is entered
FixCall(originalPrompt, apiKey) ==
    Event("fix", originalPrompt, "-", "-", apiKey, "-", 0, NoError)

\* fixBlockedPrompt returns text; swallowed is the error its catch block ate
FixReturn(text, swallowed) == Event("fixed", text, "-", "-", <<>>, "-", 0, swallowed)

\* an error reaches catch (error: any) of generateImage
Caught(error) == Event("caught", <<>>, "-", "-", <<>>, "-", 0, error)

\* ai.models.generateContent({model: 'gemini-2.5-flash', contents: ...}) of the repair
TextRequest(originalPrompt, key) ==
    Event("text", originalPrompt, "-", "gemini-2.5-flash", key, "-", 0, NoError)

\* mutation: only the story format gets the tall size
DalleSizeStoryOnly(ratio) == IF ratio = "9:16" THEN "1024x1792" ELSE "1024x1024"

\* generateOpenAIImage: the size DALL-E 3 is asked for
DalleSize(ratio) == IF ratio = "3:4" \/ ratio = "9:16" THEN "1024x1792" ELSE "1024x1024"

\* fetch("https://api.openai.com/v1/images/generations", ...)
OpenAiRequest(prompt, ratio, openAiKey) ==
    Event("openai", prompt, ratio, "dall-e-3", Trim(openAiKey.text), DalleSize(ratio), 0,
          NoError)

(* ----------------------------- outcomes -------------------------------- *)

Pending == [kind |-> "pending", value |-> <<>>, error |-> NoError]
Resolved(image) == [kind |-> "ok", value |-> image, error |-> NoError]
Rejected(error) == [kind |-> "err", value |-> <<>>, error |-> error]

\* the provider reply that was received last, and who sent it
NoReply == [from |-> "none", body |-> <<>>]
Received(from, body) == [from |-> from, body |-> body]

(* ---------------------------- generateImage ---------------------------- *)

\* the arguments of one invocation of generateImage
Frame(prompt, ratio, style, model, apiKey, isRetry, openAiKey) ==
    [prompt |-> prompt, ratio |-> ratio, style |-> style, model |-> model,
     apiKey |-> apiKey, isRetry |-> isRetry, openAiKey |-> openAiKey]

\* the invocation that is running
Cur == calls[Len(calls)]

\* mutation: the style prefix is added whatever the style
StyledPromptAlways(prompt, style) == style \o <<" style. ">> \o prompt

\* promptToSend
StyledPrompt(prompt, style) ==
    IF style # StyleNone THEN style \o <<" style. ">> \o prompt ELSE prompt

\* mutation: getAiClient without its missing-key check
ClientThrowsNever(apiKey) == FALSE

\* getAiClient(apiKey) throws: the trimmed key is empty
ClientThrows(apiKey) == Trim(apiKey) = <<>>

\* the promise of the outermost invocation settles
Settle(outcome, tr) ==
    /\ pc' = "done"
    /\ result' = outcome
    /\ trace' = tr
    /\ caught' = NoError

\* mutation: the repair is asked to fix the style-prefixed prompt
CallFixBlockedPromptStyled(error, f, tr) ==
    LET validApiKey == Trim(f.apiKey)
        sent == StyledPrompt(f.prompt, f.style)
        entered == Append(tr, FixCall(sent, validApiKey))
    IN  IF ClientThrows(validApiKey)
        THEN Settle(Rejected(error), Append(entered, FixReturn(sent, MissingKeyError)))
        ELSE /\ pc' = "awaitFix"
             /\ caught' = error
             /\ trace' = Append(entered, TextRequest(sent, validApiKey))
             /\ UNCHANGED result

\* fixBlockedPrompt up to its first suspension, called from the catch block of
\* frame f with the events tr so far
CallFixBlockedPrompt(error, f, tr) ==
    LET validApiKey == Trim(f.apiKey)
        entered == Append(tr, FixCall(f.prompt, validApiKey))
    IN  IF ClientThrows(validApiKey)
        THEN \* its catch returns originalPrompt: fixedPrompt === prompt, throw error
             Settle(Rejected(error), Append(entered, FixReturn(f.prompt, MissingKeyError)))
        ELSE /\ pc' = "awaitFix"
             /\ caught' = error
             /\ trace' = Append(entered, TextRequest(f.prompt, validApiKey))
             /\ UNCHANGED result

\* mutation: the rate-limit branch ignores isRetry
OnRateLimitAlwaysRetries(f, tr) ==
    /\ pc' = "waiting"
    /\ trace' = Append(tr, WaitEvent(WaitMs))
    /\ UNCHANGED <<caught, result>>

\* the rate-limit branch of the catch block
OnRateLimit(f, tr) ==
    IF ~f.isRetry
    THEN /\ pc' = "waiting"
         /\ trace' = Append(tr, WaitEvent(WaitMs))
         /\ UNCHANGED <<caught, result>>
    ELSE Settle(Rejected(HighTrafficError), tr)

\* mutation: the prompt repair is tried before the credential test
OnOtherFailureRepairFirst(error, f, tr) ==
    IF ~f.isRetry
    THEN CallFixBlockedPrompt(error, f, tr)
    ELSE IF IsInvalidKey(error)
         THEN Settle(Rejected(InvalidKeyError), tr)
         ELSE Settle(Rejected(error), tr)

\* mutation: the prompt repair ignores isRetry
OnOtherFailureAlwaysRepairs(error, f, tr) ==
    IF IsInvalidKey(error)
    THEN Settle(Rejected(InvalidKeyError), tr)
    ELSE CallFixBlockedPrompt(error, f, tr)

\* the rest of the catch block, for an error that is not a rate limit
OnOtherFailure(error, f, tr) ==
    IF IsInvalidKey(error)
    THEN Settle(Rejected(InvalidKeyError), tr)
    ELSE IF ~f.isRetry
         THEN CallFixBlockedPrompt(error, f, tr)
         ELSE Settle(Rejected(error), tr)

\* mutation: the credential test comes before the rate-limit test
CatchCredentialFirst(error, f, tr) ==
    LET seen == Append(tr, Caught(error))
    IN  IF IsInvalidKey(error) THEN Settle(Rejected(InvalidKeyError), seen)
        ELSE IF IsRateLimit(error) THEN OnRateLimit(f, seen)
             ELSE OnOtherFailure(error, f, seen)

\* catch (error: any) { ... } of generateImage, in frame f
Catch(error, f, tr) ==
    LET seen == Append(tr, Caught(error))
    IN  IF IsRateLimit(error) THEN OnRateLimit(f, seen) ELSE OnOtherFailure(error, f, seen)

\* generateOpenAIImage up to its first suspension
CallOpenAI(promptToSend, f, tr) ==
    IF ~Truthy(f.openAiKey)
    THEN Settle(Rejected(OpenAiKeyRequiredError), tr)
    ELSE /\ pc' = "awaitOpenAI"
         /\ trace' = Append(tr, OpenAiRequest(promptToSend, f.ratio, f.openAiKey))
         /\ UNCHANGED <<caught, result>>

\* generateImage(f) from its entry up to its first suspension or its outcome;
\* cl and tr are the invocations and the events before it
Enter(f, cl, tr) ==
    LET validApiKey == Trim(f.apiKey)
        promptToSend == StyledPrompt(f.prompt, f.style)
    IN  /\ calls' = Append(cl, f)
        /\ IF f.model = "dall-e-3"
           THEN IF ~Truthy(f.openAiKey)
                THEN Settle(Rejected(OpenAiKeyPromptError), tr)
                ELSE CallOpenAI(promptToSend, f, tr)
           ELSE IF ClientThrows(validApiKey)
                THEN Catch(MissingKeyError, f, tr)
                ELSE /\ pc' = "awaitImage"
                     /\ trace' = Append(tr, ImageRequest(promptToSend, f.ratio, f.model, validApiKey))
                     /\ UNCHANGED <<caught, result>>

\* mutation: the retry is not marked as a retry
ReinvokeNotRetry(prompt, f) ==
    Frame(prompt, f.ratio, f.style, f.model, Trim(f.apiKey), FALSE, f.openAiKey)

\* mutation: the retry is given promptToSend instead of prompt
ReinvokeStyled(prompt, f) ==
    Frame(StyledPrompt(prompt, f.style), f.ratio, f.style, f.model, Trim(f.apiKey), TRUE,
          f.openAiKey)

\* generateImage(prompt, ratio, style, model, validApiKey, true, openAiKey)
Reinvoke(prompt, f) ==
    Frame(prompt, f.ratio, f.style, f.model, Trim(f.apiKey), TRUE, f.openAiKey)

(* ------ fixBlockedPrompt, enhancePrompt and generateCaption as calls ------ *)

TextFns == {"fixBlockedPrompt", "enhancePrompt", "generateCaption"}

\* the fallback caption
CaptionFallback == <<"Check out this AI generated image! #AI #Art">>

\* one call of a text helper: its arguments, the text-model requests it has
\* sent, the reply it got and its outcome
Helper(at, prompt, style, apiKey, sent, got, outcome) ==
    [pc |-> at, prompt |-> prompt, style |-> style, apiKey |-> apiKey, sent |-> sent,
     reply |-> got, result |-> outcome]

HelperIdle == Helper("idle", <<>>, StyleNone, <<>>, 0, NoReply, Pending)

\* mutation: an error that is not a rate limit is thrown on
CaptionOutcomeRethrows(r) ==
    IF r.throws
    THEN IF r.error.status = 429 \/ (r.error.message # <<>> /\ Includes(r.error.message, "429"))
         THEN Resolved(CaptionFallback)
         ELSE Rejected(r.error)
    ELSE IF ~Truthy(r.text) THEN Resolved(CaptionFallback) ELSE Resolved(Trim(r.text.text))

\* generateCaption after its text-model call: what it returns for reply r
CaptionOutcome(r) ==
    IF r.throws
    THEN IF r.error.status = 429 \/ (r.error.message # <<>> /\ Includes(r.error.message, "429"))
         THEN Resolved(CaptionFallback)
         ELSE Resolved(CaptionFallback)
    ELSE IF ~Truthy(r.text) THEN Resolved(CaptionFallback) ELSE Resolved(Trim(r.text.text))

\* what helper fn returns when getAiClient throws inside its try block
HelperFallback(fn, prompt) == IF fn = "generateCaption" THEN CaptionFallback ELSE prompt

\* helper fn after its text-model call
HelperOutcome(fn, r, prompt) ==
    IF fn = "generateCaption" THEN CaptionOutcome(r) ELSE Resolved(FixResult(r, prompt))

\* helper fn from its entry up to its suspension or its outcome
HelperEnter(fn, prompt, style, apiKey) ==
    IF ClientThrows(apiKey)
    THEN Helper("done", prompt, style, apiKey, 0, NoReply, Resolved(HelperFallback(fn, prompt)))
    ELSE Helper("await", prompt, style, apiKey, 1, NoReply, Pending)

\* helper call h of fn resumes with reply r of the text model
HelperResume(fn, h, r) ==
    Helper("done", h.prompt, h.style, h.apiKey, h.sent, Received("text", r),
           HelperOutcome(fn, r, h.prompt))

(* ------------------------ the component's state ------------------------- *)

\* a nullable string of the component state (string | null)
Null == Undefined

\* what the user types or pastes
UiPrompts == {<<>>, <<"a">>}
UiOpenAiKeys == {<<>>, <<"k">>}
\* the models picked: the two Gemini models take the same path
UiModels == {"gemini-2.5-flash-image", "dall-e-3"}
LoginKeys == {<<>>, <<"k">>}
WatermarkTexts == {<<"@instagen.ai">>, <<" ">>}

ApiKeyMissingMessage == <<"API Key is missing. Please try logging out and back in.">>
SessionExpiredMessage == <<"Session expired or API Key invalid. Please log out and try again.">>
GenericFailureMessage == <<"Failed to generate content. Please try again.">>

\* String.prototype.includes(marker) on an error message: a piece of the
\* message is the marker, or is the one literal of the service that spells it
IncludesText(s, marker) ==
    \/ Includes(s, marker)
    \/ /\ marker = "API Key is invalid"
       /\ Includes(s, "API Key is invalid or missing. Please log in again.")

\* the catch block of executeGeneration: the message shown for error err
UiErrorFor(err) ==
    IF /\ err.message # <<>>
       /\ \/ IncludesText(err.message, "Requested entity was not found")
          \/ IncludesText(err.message, "API Key is invalid")
          \/ IncludesText(err.message, "API Key not found")
    THEN SessionExpiredMessage
    ELSE IF err.message # <<>> THEN err.message ELSE GenericFailureMessage

\* one executeGeneration flow: its position, its arguments, the credentials
\* of the render it was started from
Flow(at, promptVal, ratioVal, styleVal, modelVal, geminiApiKey, openAiKey) ==
    [at |-> at, promptVal |-> promptVal, ratioVal |-> ratioVal, styleVal |-> styleVal,
     modelVal |-> modelVal, geminiApiKey |-> geminiApiKey, openAiKey |-> openAiKey]

NoFlow == Flow("none", <<>>, "1:1", StyleNone, "gemini-2.5-flash-image", <<>>, <<>>)

\* the useState initial values; flow, inFlight and pending are the flow being
\* run, the number of flows between setIsGenerating(true) and the finally
\* block, and the applyWatermark calls not yet resolved; entered is the
\* promptVal of the last call of executeGeneration made with arguments of the
\* caller's choice
UiInitial ==
    [hasKey |-> FALSE, geminiApiKey |-> <<>>, prompt |-> <<>>, aspectRatio |-> "1:1",
     style |-> StyleNone, selectedModel |-> "gemini-2.5-flash-image", openAiKey |-> <<>>,
     watermarkEnabled |-> FALSE, watermarkText |-> <<"@instagen.ai">>,
     rawImageUrl |-> Null, imageUrl |-> Null, caption |-> <<>>,
     isGenerating |-> FALSE, isEnhancing |-> FALSE, error |-> Null,
     flow |-> NoFlow, inFlight |-> 0, pending |-> {}, entered |-> Null]

\* canvas.toDataURL('image/png') after the image and the text are drawn
Watermarked(base64Image, text) ==
    DataUri(<<"image/", "png">>, <<"canvas(">> \o base64Image \o <<"+">> \o text \o <<")">>)

\* mutation: the text is drawn on an image that already carries it
applyWatermarkTwice(base64Image, text, how) ==
    IF text = <<>> THEN base64Image
    ELSE IF how = "drawn" THEN Watermarked(Watermarked(base64Image, text), text)
    ELSE base64Image

\* what applyWatermark resolves to; how is what the browser does with the image
applyWatermark(base64Image, text, how) ==
    IF text = <<>> THEN base64Image
    ELSE IF how = "drawn" THEN Watermarked(base64Image, text) ELSE base64Image

WatermarkOutcomes == {"drawn", "no context", "load error"}

(* ------------------------ applyWatermark as a call ----------------------- *)

\* lengths on the canvas are kept in thousandths of a pixel
Milli == 1000

\* Math.max(20, img.width * 0.035) and img.width * 0.04
MinFontPx == 20
FontPerMille == 35
PaddingPerMille == 40

Max(a, b) == IF a >= b THEN a ELSE b

\* the Image element: not created, or created and, once loaded, width x height
NoImage == [created |-> FALSE, width |-> 0, height |-> 0]
LoadedImage(width, height) == [created |-> TRUE, width |-> width, height |-> height]

\* the sizes of the decoded image, in pixels
ImageWidths == {1, 571, 572, 1024}
ImageHeights == {1, 1792}

\* the canvas element: not created
NoCanvas ==
    [created |-> FALSE, width |-> 0, height |-> 0, drawn |-> FALSE, fontSize |-> 0,
     textAlign |-> "-", textBaseline |-> "-", text |-> <<>>, x |-> 0, y |-> 0,
     encodedAs |-> <<>>]

\* the canvas created in onload, before anything is drawn on it
BlankCanvas(img) ==
    [NoCanvas EXCEPT !.created = TRUE, !.width = img.width, !.height = img.height]

\* mutation: the padding is taken from the height
paddingOfHeight(img) == img.height * PaddingPerMille

\* const padding = img.width * 0.04
padding(img) == img.width * PaddingPerMille

\* the canvas after drawImage, fillText and toDataURL('image/png')
DrawnCanvas(img, text) ==
    [created |-> TRUE, width |-> img.width, height |-> img.height, drawn |-> TRUE,
     fontSize |-> Max(MinFontPx * Milli, img.width * FontPerMille),
     textAlign |-> "right", textBaseline |-> "bottom", text |-> text,
     x |-> img.width * Milli - padding(img), y |-> img.height * Milli - padding(img),
     encodedAs |-> <<"image/", "png">>]

\* one applyWatermark call: its arguments, its Image and canvas, its promise
WatermarkCall(at, base64Image, text, image, canvas, outcome) ==
    [at |-> at, base64Image |-> base64Image, text |-> text, image |-> image,
     canvas |-> canvas, result |-> outcome]

WatermarkIdle == WatermarkCall("idle", <<>>, <<>>, NoImage, NoCanvas, Pending)

\* mutation: applyWatermark without its test of the text
ApplyEnterAlwaysDecodes(base64Image, text) ==
    WatermarkCall("loading", base64Image, text, LoadedImage(0, 0), NoCanvas, Pending)

\* applyWatermark from its entry up to img.src = base64Image
ApplyEnter(base64Image, text) ==
    IF text = <<>>
    THEN WatermarkCall("done", base64Image, text, NoImage, NoCanvas, Resolved(base64Image))
    ELSE WatermarkCall("loading", base64Image, text, LoadedImage(0, 0), NoCanvas, Pending)

\* mutation: a promise with a reject branch for onerror and for the missing context
ApplyResumeRejects(c, how, width, height) ==
    LET img == LoadedImage(width, height)
    IN  IF how = "load error"
        THEN WatermarkCall("done", c.base64Image, c.text, c.image, NoCanvas,
                           Rejected(Error(<<"load error">>)))
        ELSE IF how = "no context"
             THEN WatermarkCall("done", c.base64Image, c.text, img, BlankCanvas(img),
                                Rejected(Error(<<"no context">>)))
             ELSE WatermarkCall("done", c.base64Image, c.text, img, DrawnCanvas(img, c.text),
                                Resolved(applyWatermark(c.base64Image, c.text, how)))

\* onload (with or without a 2D context) or onerror of call c
ApplyResume(c, how, width, height) ==
    LET img == LoadedImage(width, height)
    IN  IF how = "load error"
        THEN WatermarkCall("done", c.base64Image, c.text, c.image, NoCanvas,
                           Resolved(applyWatermark(c.base64Image, c.text, how)))
        ELSE IF how = "no context"
             THEN WatermarkCall("done", c.base64Image, c.text, img, BlankCanvas(img),
                                Resolved(applyWatermark(c.base64Image, c.text, how)))
             ELSE WatermarkCall("done", c.base64Image, c.text, img, DrawnCanvas(img, c.text),
                                Resolved(applyWatermark(c.base64Image, c.text, how)))

\* the arguments applyWatermark is called with
WatermarkImages ==
    { DataUri(<<"image/", "png">>, <<"P">>), DataUri(<<"image/", "jpeg">>, <<"J">>),
      DataUri(<<"image/", "png">>, <<"B">>), <<"x">>, <<>> }
WatermarkArgs == {<<>>, <<" ">>, <<"@instagen.ai">>}

\* mutation: the effect watermarks the image on display
updateImageWithWatermarkOfShown(u) ==
    IF ~Truthy(u.rawImageUrl)
    THEN [u EXCEPT !.imageUrl = Null]
    ELSE IF u.watermarkEnabled /\ Trim(u.watermarkText) # <<>>
         THEN [u EXCEPT !.pending = @ \cup {[base64Image |-> u.imageUrl.text,
                                             text |-> Trim(u.watermarkText)]}]
         ELSE [u EXCEPT !.imageUrl = u.rawImageUrl]

\* the effect updateImageWithWatermark up to its first suspension, on state u
updateImageWithWatermark(u) ==
    IF ~Truthy(u.rawImageUrl)
    THEN [u EXCEPT !.imageUrl = Null]
    ELSE IF u.watermarkEnabled /\ Trim(u.watermarkText) # <<>>
         THEN [u EXCEPT !.pending = @ \cup {[base64Image |-> u.rawImageUrl.text,
                                             text |-> Trim(u.watermarkText)]}]
         ELSE [u EXCEPT !.imageUrl = u.rawImageUrl]

\* the render after the state went from old to new: the effect runs when one
\* of its dependencies changed
Rendered(old, new) ==
    IF \/ old.rawImageUrl # new.rawImageUrl
       \/ old.watermarkEnabled # new.watermarkEnabled
       \/ old.watermarkText # new.watermarkText
    THEN updateImageWithWatermark(new)
    ELSE new

\* the replies the providers give while the component is driven
UiGeminiReplies ==
    { r \in GeminiReplies :
        \/ r.throws /\ r.error \in { [status |-> 429, code |-> 0, message |-> <<>>],
                                     [status |-> 0, code |-> 0, message |-> <<>>],
                                     [status |-> 500, code |-> 0, message |-> <<"x">>],
                                     [status |-> 0, code |-> 0, message |-> <<"x", "API Key not found">>] }
        \/ ~r.throws /\ r.response.parts \in { <<>>, <<PngPart>>, <<TextPart, JpegPart, PngPart>> }
                     /\ r.response.hasParts }

UiTextReplies ==
    { r \in TextReplies :
        \/ r.throws /\ r.error = TextModelError
        \/ ~r.throws /\ r.text \in { Str(<<" ">>), Str(<<"a", "a">>) } }

UiOpenAiReplies ==
    { r \in OpenAiReplies : ~r.rejects /\ (r.ok => r.b64 # <<>>) /\ (~r.ok => r.errorMessage # <<>>) }

(* ------------------------------ actions -------------------------------- *)

Init ==
    /\ pc = "idle"
    /\ calls = <<>>
    /\ trace = <<>>
    /\ caught = NoError
    /\ result = Pending
    /\ lastReply = NoReply
    /\ helpers = [fn \in TextFns |-> HelperIdle]
    /\ ui = UiInitial
    /\ watermark = WatermarkIdle

\* generateImage resumes with the reply r of the Gemini image call
OnImageReply(r) ==
    /\ lastReply' = Received("gemini", r)
    /\ IF r.throws
       THEN Catch(r.error, Cur, trace)
       ELSE LET base64Image == ExtractImage(r.response)
            IN  IF base64Image = <<>>
                THEN Catch(NoImageError, Cur, trace)
                ELSE Settle(Resolved(base64Image), trace)
    /\ UNCHANGED calls
    /\ UNCHANGED callerVars

\* the caller invokes generateImage (isRetry takes its default, false)
Invoke ==
    /\ pc = "idle"
    /\ \E prompt \in Prompts, ratio \in AspectRatio, style \in ImageStyle,
          model \in ImageModel, apiKey \in ApiKeys, openAiKey \in OpenAiKeys :
          Enter(Frame(prompt, ratio, style, model, apiKey, FALSE, openAiKey), <<>>, <<>>)
    /\ UNCHANGED lastReply
    /\ UNCHANGED callerVars

\* the Gemini image call completes: it throws, or returns a response
ImageResponds ==
    /\ pc = "awaitImage"
    /\ \E r \in GeminiReplies : OnImageReply(r)

\* mutation: the 5-second wait never ends
WaitNeverElapses == pc = "waiting" /\ UNCHANGED vars

\* the 5-second timer fires: the rate-limit retry
WaitElapses ==
    /\ pc = "waiting"
    /\ Enter(Reinvoke(Cur.prompt, Cur), calls, trace)
    /\ UNCHANGED lastReply
    /\ UNCHANGED callerVars

\* generateImage resumes with the reply r of fixBlockedPrompt's text-model call
OnFixReply(r) ==
    LET fixedPrompt == FixResult(r, Cur.prompt)
        returned == Append(trace, FixReturn(fixedPrompt, r.error))
    IN  /\ lastReply' = Received("text", r)
        /\ IF fixedPrompt # Cur.prompt
           THEN Enter(Reinvoke(fixedPrompt, Cur), calls, returned)
           ELSE Settle(Rejected(caught), returned) /\ UNCHANGED calls
        /\ UNCHANGED callerVars

\* mutation: fixBlockedPrompt without its try/catch
FixRespondsPropagates ==
    /\ pc = "awaitFix"
    /\ \E r \in TextReplies :
          LET fixedPrompt == FixResult(r, Cur.prompt)
              returned == Append(trace, FixReturn(fixedPrompt, r.error))
          IN  /\ lastReply' = Received("text", r)
              /\ IF r.throws
                 THEN Settle(Rejected(r.error), returned) /\ UNCHANGED calls
                 ELSE IF fixedPrompt # Cur.prompt
                      THEN Enter(Reinvoke(fixedPrompt, Cur), calls, returned)
                      ELSE Settle(Rejected(caught), returned) /\ UNCHANGED calls
    /\ UNCHANGED callerVars

\* the text model call of fixBlockedPrompt completes
FixResponds ==
    /\ pc = "awaitFix"
    /\ \E r \in TextReplies : OnFixReply(r)

\* mutation: a failed response is reported without the upstream message
OpenAiOutcomeGeneric(r) ==
    IF r.rejects THEN Rejected(FetchError)
    ELSE IF ~r.ok
         THEN Rejected(Error(<<"OpenAI Error: ", "Failed to generate image with OpenAI">>))
         ELSE IF r.b64 = <<>>
              THEN Rejected(NoOpenAiImageError)
              ELSE Resolved(DataUri(<<"image/", "png">>, r.b64))

\* generateOpenAIImage after its fetch: what it returns or throws for reply r
OpenAiOutcome(r) ==
    IF r.rejects THEN Rejected(FetchError)
    ELSE IF ~r.ok
         THEN Rejected(Error(<<"OpenAI Error: ">> \o
                  (IF r.errorMessage # <<>> THEN r.errorMessage
                   ELSE <<"Failed to generate image with OpenAI">>)))
         ELSE IF r.b64 = <<>>
              THEN Rejected(NoOpenAiImageError)
              ELSE Resolved(DataUri(<<"image/", "png">>, r.b64))

\* generateImage resumes with the reply r of the OpenAI request
OnOpenAiReply(r) ==
    /\ lastReply' = Received("openai", r)
    /\ Settle(OpenAiOutcome(r), trace)
    /\ UNCHANGED calls
    /\ UNCHANGED callerVars

\* mutation: the DALL-E call sits inside the try block of generateImage
OpenAiRespondsCaught ==
    /\ pc = "awaitOpenAI"
    /\ \E r \in OpenAiReplies :
          /\ lastReply' = Received("openai", r)
          /\ IF OpenAiOutcome(r).kind = "err"
             THEN Catch(OpenAiOutcome(r).error, Cur, trace)
             ELSE Settle(OpenAiOutcome(r), trace)
    /\ UNCHANGED calls
    /\ UNCHANGED callerVars

\* the OpenAI request completes
OpenAiResponds ==
    /\ pc = "awaitOpenAI"
    /\ \E r \in OpenAiReplies : OnOpenAiReply(r)

Next ==
    \/ Invoke
    \/ ImageResponds
    \/ WaitElapses
    \/ FixResponds
    \/ OpenAiResponds

Spec == Init /\ [][Next]_vars

\* every provider call and the 5-second wait complete
FairImage ==
    /\ WF_vars(ImageResponds)
    /\ WF_vars(WaitElapses)
    /\ WF_vars(FixResponds)
    /\ WF_vars(OpenAiResponds)

\* generateImage when every call it awaits completes
SpecLive == Spec /\ FairImage

(* ----------------------- the text helpers alone ------------------------- *)

\* a caller invokes one of the text helpers
CallHelper ==
    /\ \A fn \in TextFns : helpers[fn].pc = "idle"
    /\ \E fn \in TextFns, prompt \in Prompts, style \in ImageStyle, apiKey \in ApiKeys :
          helpers' = [helpers EXCEPT ![fn] = HelperEnter(fn, prompt, style, apiKey)]
    /\ UNCHANGED <<imageVars, ui, watermark>>

\* the text-model call of a helper completes
HelperResponds ==
    /\ \E fn \in TextFns :
          /\ helpers[fn].pc = "await"
          /\ \E r \in TextReplies :
                helpers' = [helpers EXCEPT ![fn] = HelperResume(fn, helpers[fn], r)]
    /\ UNCHANGED <<imageVars, ui, watermark>>

NextText ==
    \/ CallHelper
    \/ HelperResponds

SpecText == Init /\ [][NextText]_vars

(* ------------------- the scan of the response parts --------------------- *)

\* the Gemini image call returns a response with any list of parts
ImageRespondsAny ==
    /\ pc = "awaitImage"
    /\ \E r \in AnyGeminiReplies : OnImageReply(r)

NextExtract ==
    \/ Invoke
    \/ ImageRespondsAny

\* a first attempt whose response is any list of parts
SpecExtract == Init /\ [][NextExtract]_vars

(* ------------------------- applyWatermark alone -------------------------- *)

\* a caller invokes applyWatermark
CallApplyWatermark ==
    /\ watermark.at # "loading"
    /\ \E base64Image \in WatermarkImages, text \in WatermarkArgs :
          watermark' = ApplyEnter(base64Image, text)
    /\ UNCHANGED <<imageVars, helpers, ui>>

\* the browser has decoded the image, or has failed to
ImageLoadSettles ==
    /\ watermark.at = "loading"
    /\ \E how \in WatermarkOutcomes, width \in ImageWidths, height \in ImageHeights :
          watermark' = ApplyResume(watermark, how, width, height)
    /\ UNCHANGED <<imageVars, helpers, ui>>

NextApply ==
    \/ CallApplyWatermark
    \/ ImageLoadSettles

SpecApply == Init /\ [][NextApply]_vars

(* ------------- generateImage and applyWatermark on its result ------------ *)

\* the caller hands the image generateImage resolved to to applyWatermark
WatermarkTheResult ==
    /\ pc = "done"
    /\ result.kind = "ok"
    /\ watermark.at = "idle"
    /\ \E text \in WatermarkArgs : watermark' = ApplyEnter(result.value, text)
    /\ UNCHANGED <<imageVars, helpers, ui>>

NextArtifact ==
    \/ Invoke
    \/ ImageResponds
    \/ WaitElapses
    \/ FixResponds
    \/ OpenAiResponds
    \/ WatermarkTheResult
    \/ ImageLoadSettles

SpecArtifact == Init /\ [][NextArtifact]_vars

(* ------------------------- the component's steps ------------------------ *)

\* an awaited call has settled and the code after the await has not run yet:
\* it runs, as a microtask, before any other event is handled
Due ==
    \/ ui.flow.at = "image" /\ pc = "done"
    \/ ui.flow.at = "caption" /\ helpers["generateCaption"].pc = "done"
    \/ ui.isEnhancing /\ helpers["enhancePrompt"].pc = "done"

\* the mount effect finds a key in the URL or in localStorage, or the login
\* form is submitted: the trimmed key is stored and the controls are shown
Login ==
    /\ ~Due
    /\ ~ui.hasKey
    /\ \E key \in LoginKeys : ui' = [ui EXCEPT !.hasKey = TRUE, !.geminiApiKey = key]
    /\ UNCHANGED <<imageVars, helpers, watermark>>

\* the user edits the prompt
setPrompt ==
    /\ ~Due
    /\ ui.hasKey
    /\ \E value \in UiPrompts \ {ui.prompt} : ui' = [ui EXCEPT !.prompt = value]
    /\ UNCHANGED <<imageVars, helpers, watermark>>

\* the user picks a style, a model or an OpenAI key (the key field is shown
\* for DALL-E) between two runs
setStyle ==
    /\ ~Due
    /\ ui.hasKey /\ ~ui.isGenerating /\ ~ui.isEnhancing
    /\ \E value \in ImageStyle \ {ui.style} : ui' = [ui EXCEPT !.style = value]
    /\ UNCHANGED <<imageVars, helpers, watermark>>

setSelectedModel ==
    /\ ~Due
    /\ ui.hasKey /\ ~ui.isGenerating /\ ~ui.isEnhancing
    /\ \E value \in UiModels \ {ui.selectedModel} : ui' = [ui EXCEPT !.selectedModel = value]
    /\ UNCHANGED <<imageVars, helpers, watermark>>

setOpenAiKey ==
    /\ ~Due
    /\ ui.hasKey /\ ~ui.isGenerating /\ ~ui.isEnhancing
    /\ ui.selectedModel = "dall-e-3"
    /\ \E value \in UiOpenAiKeys \ {ui.openAiKey} : ui' = [ui EXCEPT !.openAiKey = value]
    /\ UNCHANGED <<imageVars, helpers, watermark>>

\* the watermark switch
setWatermarkEnabled ==
    /\ ~Due
    /\ ui.hasKey
    /\ ui' = Rendered(ui, [ui EXCEPT !.watermarkEnabled = ~ui.watermarkEnabled])
    /\ UNCHANGED <<imageVars, helpers, watermark>>

\* the watermark text field, shown while the switch is on
setWatermarkText ==
    /\ ~Due
    /\ ui.hasKey /\ ui.watermarkEnabled
    /\ \E value \in WatermarkTexts \ {ui.watermarkText} :
          ui' = Rendered(ui, [ui EXCEPT !.watermarkText = value])
    /\ UNCHANGED <<imageVars, helpers, watermark>>

\* mutation: an image that fails to load leaves nothing on display
WatermarkCompletesOrFails ==
    /\ ~Due
    /\ \E op \in ui.pending, how \in WatermarkOutcomes :
          ui' = [ui EXCEPT !.imageUrl = IF how = "drawn"
                                        THEN Str(applyWatermark(op.base64Image, op.text, how))
                                        ELSE Null,
                           !.pending = @ \ {op}]
    /\ UNCHANGED <<imageVars, helpers, watermark>>

\* an applyWatermark call resolves and the effect stores what it resolved to
WatermarkCompletes ==
    /\ ~Due
    /\ \E op \in ui.pending, how \in WatermarkOutcomes :
          ui' = [ui EXCEPT !.imageUrl = Str(applyWatermark(op.base64Image, op.text, how)),
                           !.pending = @ \ {op}]
    /\ UNCHANGED <<imageVars, helpers, watermark>>

\* mutation: executeGeneration without its test of promptVal
executeGenerationAnyPrompt(u, promptVal, ratioVal, styleVal, modelVal) ==
    IF u.geminiApiKey = <<>>
    THEN /\ ui' = [u EXCEPT !.error = Str(ApiKeyMissingMessage)]
         /\ UNCHANGED <<imageVars, helpers, watermark>>
    ELSE /\ ui' = Rendered(u, [u EXCEPT !.isGenerating = TRUE, !.error = Null,
                                        !.rawImageUrl = Null, !.caption = <<>>,
                                        !.flow = Flow("image", promptVal, ratioVal, styleVal,
                                                      modelVal, u.geminiApiKey, u.openAiKey),
                                        !.inFlight = @ + 1])
         /\ Enter(Frame(promptVal, ratioVal, styleVal, modelVal, u.geminiApiKey, FALSE,
                        Str(u.openAiKey)), <<>>, <<>>)
         /\ lastReply' = NoReply
         /\ UNCHANGED <<helpers, watermark>>

\* executeGeneration from its entry up to its first suspension, from state u
executeGeneration(u, promptVal, ratioVal, styleVal, modelVal) ==
    IF promptVal = <<>>
    THEN ui' = u /\ UNCHANGED <<imageVars, helpers, watermark>>
    ELSE IF u.geminiApiKey = <<>>
         THEN /\ ui' = [u EXCEPT !.error = Str(ApiKeyMissingMessage)]
              /\ UNCHANGED <<imageVars, helpers, watermark>>
         ELSE /\ ui' = Rendered(u, [u EXCEPT !.isGenerating = TRUE, !.error = Null,
                                             !.rawImageUrl = Null, !.caption = <<>>,
                                             !.flow = Flow("image", promptVal, ratioVal, styleVal,
                                                           modelVal, u.geminiApiKey, u.openAiKey),
                                             !.inFlight = @ + 1])
              /\ Enter(Frame(promptVal, ratioVal, styleVal, modelVal, u.geminiApiKey, FALSE,
                             Str(u.openAiKey)), <<>>, <<>>)
              /\ lastReply' = NoReply
              /\ UNCHANGED <<helpers, watermark>>

\* executeGeneration called with a promptVal of the caller's choice, the other
\* arguments as the Generate button gives them
ExecuteGenerationCalled ==
    /\ ~Due
    /\ ui.hasKey
    /\ ~ui.isGenerating
    /\ \E promptVal \in UiPrompts :
          executeGeneration([ui EXCEPT !.entered = Str(promptVal)], promptVal,
                            ui.aspectRatio, ui.style, ui.selectedModel)

\* the Generate button
handleGenerateClick ==
    /\ ~Due
    /\ ui.hasKey
    /\ ~(ui.isGenerating \/ ui.prompt = <<>>)
    /\ executeGeneration(ui, ui.prompt, ui.aspectRatio, ui.style, ui.selectedModel)

\* mutation: the regeneration is started whether or not a flow is running
handleAspectRatioChangeUnguarded ==
    /\ ~Due
    /\ ui.hasKey
    /\ \E newRatio \in AspectRatio :
          LET u == [ui EXCEPT !.aspectRatio = newRatio]
          IN  IF Truthy(ui.imageUrl) /\ ui.prompt # <<>>
              THEN executeGeneration(u, ui.prompt, newRatio, ui.style, ui.selectedModel)
              ELSE ui' = u /\ UNCHANGED <<imageVars, helpers, watermark>>

\* mutation: the regeneration is started with the ratio of the last render
handleAspectRatioChangeOldRatio ==
    /\ ~Due
    /\ ui.hasKey
    /\ \E newRatio \in AspectRatio :
          LET u == [ui EXCEPT !.aspectRatio = newRatio]
          IN  IF Truthy(ui.imageUrl) /\ ui.prompt # <<>> /\ ~ui.isGenerating
              THEN executeGeneration(u, ui.prompt, ui.aspectRatio, ui.style, ui.selectedModel)
              ELSE ui' = u /\ UNCHANGED <<imageVars, helpers, watermark>>

\* a format button
handleAspectRatioChange ==
    /\ ~Due
    /\ ui.hasKey
    /\ \E newRatio \in AspectRatio :
          LET u == [ui EXCEPT !.aspectRatio = newRatio]
          IN  IF Truthy(ui.imageUrl) /\ ui.prompt # <<>> /\ ~ui.isGenerating
              THEN executeGeneration(u, ui.prompt, newRatio, ui.style, ui.selectedModel)
              ELSE ui' = u /\ UNCHANGED <<imageVars, helpers, watermark>>

\* mutation: no finally block, isGenerating is cleared by nobody
FinallyStillGenerating(u) == [u EXCEPT !.flow = NoFlow, !.inFlight = @ - 1]

\* the finally block of executeGeneration
Finally(u) == [u EXCEPT !.isGenerating = FALSE, !.flow = NoFlow, !.inFlight = @ - 1]

\* the generateImage call of a finished flow is gone
Released ==
    /\ pc' = "idle"
    /\ calls' = <<>>
    /\ trace' = <<>>
    /\ caught' = NoError
    /\ result' = Pending
    /\ lastReply' = NoReply

\* mutation: the caption is requested whether or not the image call succeeded
GenerateImageSettlesThenCaption ==
    /\ ui.flow.at = "image"
    /\ pc = "done"
    /\ helpers' = [helpers EXCEPT !["generateCaption"] =
                      HelperEnter("generateCaption", ui.flow.promptVal, StyleNone,
                                  ui.flow.geminiApiKey)]
    /\ IF result.kind = "ok"
       THEN /\ ui' = Rendered(ui, [ui EXCEPT !.rawImageUrl = Str(result.value),
                                             !.flow.at = "caption"])
            /\ UNCHANGED <<imageVars, watermark>>
       ELSE /\ ui' = [ui EXCEPT !.error = Str(UiErrorFor(result.error)),
                                !.flow.at = "caption"]
            /\ UNCHANGED <<imageVars, watermark>>

\* mutation: the caption is requested for the prompt of the last image call
GenerateImageSettlesRepairedCaption ==
    /\ ui.flow.at = "image"
    /\ pc = "done"
    /\ IF result.kind = "ok"
       THEN /\ ui' = Rendered(ui, [ui EXCEPT !.rawImageUrl = Str(result.value),
                                             !.flow.at = "caption"])
            /\ helpers' = [helpers EXCEPT !["generateCaption"] =
                              HelperEnter("generateCaption", Cur.prompt, StyleNone,
                                          ui.flow.geminiApiKey)]
            /\ UNCHANGED <<imageVars, watermark>>
       ELSE /\ ui' = Finally([ui EXCEPT !.error = Str(UiErrorFor(result.error))])
            /\ Released
            /\ UNCHANGED <<helpers, watermark>>

\* executeGeneration resumes after await generateImage(...)
GenerateImageSettles ==
    /\ ui.flow.at = "image"
    /\ pc = "done"
    /\ IF result.kind = "ok"
       THEN /\ ui' = Rendered(ui, [ui EXCEPT !.rawImageUrl = Str(result.value),
                                             !.flow.at = "caption"])
            /\ helpers' = [helpers EXCEPT !["generateCaption"] =
                              HelperEnter("generateCaption", ui.flow.promptVal, StyleNone,
                                          ui.flow.geminiApiKey)]
            /\ UNCHANGED <<imageVars, watermark>>
       ELSE /\ ui' = Finally([ui EXCEPT !.error = Str(UiErrorFor(result.error))])
            /\ Released
            /\ UNCHANGED <<helpers, watermark>>

\* executeGeneration resumes after await generateCaption(...)
GenerateCaptionSettles ==
    /\ ui.flow.at = "caption"
    /\ helpers["generateCaption"].pc = "done"
    /\ LET generatedCaption == helpers["generateCaption"].result
       IN  IF generatedCaption.kind = "ok"
           THEN ui' = Finally([ui EXCEPT !.caption = generatedCaption.value])
           ELSE ui' = Finally([ui EXCEPT !.error = Str(UiErrorFor(generatedCaption.error))])
    /\ helpers' = [helpers EXCEPT !["generateCaption"] = HelperIdle]
    /\ Released
    /\ UNCHANGED watermark

\* the Enhance button
handleEnhancePrompt ==
    /\ ~Due
    /\ ui.hasKey
    /\ ~(ui.isEnhancing \/ ui.prompt = <<>>)
    /\ ui' = [ui EXCEPT !.isEnhancing = TRUE]
    /\ helpers' = [helpers EXCEPT !["enhancePrompt"] =
                      HelperEnter("enhancePrompt", ui.prompt, ui.style, ui.geminiApiKey)]
    /\ UNCHANGED <<imageVars, watermark>>

\* handleEnhancePrompt resumes after await enhancePrompt(...)
EnhancePromptSettles ==
    /\ ui.isEnhancing
    /\ helpers["enhancePrompt"].pc = "done"
    /\ LET newPrompt == helpers["enhancePrompt"].result
       IN  IF newPrompt.kind = "ok"
           THEN ui' = [ui EXCEPT !.prompt = newPrompt.value, !.isEnhancing = FALSE]
           ELSE ui' = [ui EXCEPT !.isEnhancing = FALSE]
    /\ helpers' = [helpers EXCEPT !["enhancePrompt"] = HelperIdle]
    /\ UNCHANGED <<imageVars, watermark>>

\* the providers answer the calls of the flow
ImageRespondsToFlow ==
    /\ ~Due
    /\ pc = "awaitImage"
    /\ \E r \in UiGeminiReplies : OnImageReply(r)

WaitElapsesInFlow ==
    /\ ~Due
    /\ WaitElapses

FixRespondsToFlow ==
    /\ ~Due
    /\ pc = "awaitFix"
    /\ \E r \in UiTextReplies : OnFixReply(r)

OpenAiRespondsToFlow ==
    /\ ~Due
    /\ pc = "awaitOpenAI"
    /\ \E r \in UiOpenAiReplies : OnOpenAiReply(r)

\* the text model answers helper fn
TextRespondsTo(fn) ==
    /\ helpers[fn].pc = "await"
    /\ \E r \in UiTextReplies :
          helpers' = [helpers EXCEPT ![fn] = HelperResume(fn, helpers[fn], r)]
    /\ UNCHANGED <<imageVars, ui, watermark>>

\* the text model answers enhancePrompt or generateCaption
TextRespondsToFlow ==
    /\ ~Due
    /\ \E fn \in {"enhancePrompt", "generateCaption"} : TextRespondsTo(fn)

NextUI ==
    \/ Login
    \/ setPrompt
    \/ setStyle
    \/ setSelectedModel
    \/ setOpenAiKey
    \/ handleGenerateClick
    \/ handleAspectRatioChange
    \/ handleEnhancePrompt
    \/ ImageRespondsToFlow
    \/ WaitElapsesInFlow
    \/ FixRespondsToFlow
    \/ OpenAiRespondsToFlow
    \/ TextRespondsToFlow
    \/ GenerateImageSettles
    \/ GenerateCaptionSettles
    \/ EnhancePromptSettles

\* the component with the services behind it, the watermark left as it is
SpecUI == Init /\ [][NextUI]_vars

\* executeGeneration under any promptVal, beside the Generate button
NextExecute ==
    \/ Login
    \/ setPrompt
    \/ setWatermarkEnabled
    \/ WatermarkCompletes
    \/ ExecuteGenerationCalled
    \/ handleGenerateClick
    \/ ImageRespondsToFlow
    \/ WaitElapsesInFlow
    \/ FixRespondsToFlow
    \/ TextRespondsToFlow
    \/ GenerateImageSettles
    \/ GenerateCaptionSettles

SpecExecute == Init /\ [][NextExecute]_vars

\* the component with its watermark controls, driven with the Gemini model
NextWatermark ==
    \/ Login
    \/ setPrompt
    \/ setWatermarkEnabled
    \/ setWatermarkText
    \/ WatermarkCompletes
    \/ handleGenerateClick
    \/ ImageRespondsToFlow
    \/ WaitElapsesInFlow
    \/ FixRespondsToFlow
    \/ TextRespondsToFlow
    \/ GenerateImageSettles
    \/ GenerateCaptionSettles

SpecWatermark == Init /\ [][NextWatermark]_vars

\* the load and error events of an image are delivered by the event loop, and
\* the code after a settled await runs as soon as the current handler returns
FairWatermark ==
    /\ SF_vars(WatermarkCompletes)
    /\ WF_vars(GenerateImageSettles)
    /\ WF_vars(GenerateCaptionSettles)

\* the component when every applyWatermark call gets its load or error event
SpecWatermarkLive == SpecWatermark /\ FairWatermark

\* every reply of a provider and the timer are events the event loop delivers,
\* whatever other events it handles in between; the code after a settled await
\* runs as soon as the current handler returns
FairUI ==
    /\ SF_vars(ImageRespondsToFlow)
    /\ SF_vars(WaitElapsesInFlow)
    /\ SF_vars(FixRespondsToFlow)
    /\ SF_vars(OpenAiRespondsToFlow)
    /\ SF_vars(~Due /\ TextRespondsTo("generateCaption"))
    /\ SF_vars(~Due /\ TextRespondsTo("enhancePrompt"))
    /\ WF_vars(GenerateImageSettles)
    /\ WF_vars(GenerateCaptionSettles)
    /\ WF_vars(EnhancePromptSettles)

\* the component when every network call and every wait completes
SpecUILive == SpecUI /\ FairUI

(* ------------------------ reading the history --------------------------- *)

\* the events of one kind, in order
Ops(op) == SelectSeq(trace, LAMBDA e : e.op = op)

Count(op) == Len(Ops(op))

\* the error signatures as the specification words them
RateLimitSignature(e) ==
    \/ e.status = 429
    \/ e.code = 429
    \/ \E i \in DOMAIN e.message :
          e.message[i] \in {"429", "Quota exceeded", "RESOURCE_EXHAUSTED"}

CredentialSignature(e) ==
    \/ e.status = 400
    \/ \E i \in DOMAIN e.message : e.message[i] = "API Key not found"

\* "<style> style. <p>", or p when there is no style
Prefixed(style, p) == IF style = <<>> THEN p ELSE style \o <<" style. ">> \o p

\* empty or whitespace only
Blank(s) == \A i \in DOMAIN s : s[i] = " "

\* the first Gemini image call was made and failed with error class P
FirstCallFailed == Len(trace) >= 2 /\ trace[1].op = "image" /\ trace[2].op = "caught"

FirstCallRateLimited == FirstCallFailed /\ RateLimitSignature(trace[2].error)

FirstCallNeedsRepair ==
    /\ FirstCallFailed
    /\ ~RateLimitSignature(trace[2].error)
    /\ ~CredentialSignature(trace[2].error)

\* the second attempt failed: its error
SecondFailed == Len(calls) = 2 /\ Count("caught") = 2
SecondError == Ops("caught")[2].error

(* ------------------------------- claims --------------------------------- *)

\* C1: in one top-level invocation at most two image calls are made, at most
\* one 5-second wait and at most one prompt-repair call occur, and a wait and a
\* prompt-repair call never both occur.
C1_RetryBounded ==
    /\ Count("image") <= 2
    /\ Count("wait") <= 1
    /\ Count("fix") <= 1
    /\ ~(Count("wait") >= 1 /\ Count("fix") >= 1)

C1_Witness ==
    /\ pc = "done"
    /\ Count("image") = 2
    /\ Count("fix") = 1
    /\ result.kind = "err"

\* C2: when the first image call fails with a rate-limit error, exactly one
\* wait of 5000 ms follows and then exactly one further image call, which
\* carries the same prompt, style, ratio and model; the repair service is not
\* called.
C2_RateLimitRetry ==
    FirstCallRateLimited =>
        /\ Len(trace) >= 3
        /\ trace[3].op = "wait" /\ trace[3].ms = 5000
        /\ Count("wait") = 1
        /\ Count("fix") = 0 /\ Count("text") = 0
        /\ pc # "waiting" =>
              /\ Len(trace) >= 4
              /\ trace[4] = trace[1]
              /\ Count("image") = 2
              /\ Len(calls) = 2
              /\ calls[2].prompt = calls[1].prompt
              /\ calls[2].style = calls[1].style
              /\ calls[2].ratio = calls[1].ratio
              /\ calls[2].model = calls[1].model

C2_Witness ==
    /\ pc = "done"
    /\ FirstCallRateLimited
    /\ calls[1].style # <<>>
    /\ result.kind = "ok"

\* C3: if the first image call and the retry after the wait both fail with a
\* rate-limit error, generateImage fails with the 'High traffic detected' error
\* after exactly two image calls and one wait, with no prompt-repair call.
C3_SecondRateLimitIsTerminal ==
    (FirstCallRateLimited /\ SecondFailed /\ RateLimitSignature(SecondError)) =>
        /\ pc = "done"
        /\ result.kind = "err"
        /\ result.error.message =
              <<"High traffic detected (Quota Exceeded). Please wait a minute before trying again.">>
        /\ Count("image") = 2
        /\ Count("wait") = 1
        /\ Count("fix") = 0

C3_Witness ==
    /\ FirstCallRateLimited
    /\ SecondFailed
    /\ RateLimitSignature(SecondError)
    /\ pc = "done"

\* C4: when the first image call yields no image data or another failure that
\* is neither a rate limit nor a credential error, the repair service is called
\* exactly once with the original unstyled prompt; if it returns a different
\* string, exactly one more image call is made, with the style prefix applied
\* to the repaired prompt and the same ratio, style and model.
C4_RepairRetry ==
    FirstCallNeedsRepair =>
        /\ Len(trace) >= 4
        /\ trace[3].op = "fix" /\ trace[3].prompt = calls[1].prompt
        /\ trace[4].op = "text" /\ trace[4].prompt = calls[1].prompt
        /\ Count("fix") = 1 /\ Count("text") = 1
        /\ Count("fixed") <= 1
        /\ Count("fixed") = 0 => Count("image") = 1
        /\ Count("fixed") = 1 =>
              LET repaired == Ops("fixed")[1].prompt
              IN  IF repaired # calls[1].prompt
                  THEN /\ Count("image") = 2
                       /\ Ops("image")[2].prompt = Prefixed(calls[1].style, repaired)
                       /\ Ops("image")[2].ratio = calls[1].ratio
                       /\ Ops("image")[2].model = calls[1].model
                       /\ Len(calls) = 2
                       /\ calls[2].style = calls[1].style
                  ELSE Count("image") = 1

C4_Witness ==
    /\ FirstCallNeedsRepair
    /\ trace[2].error.message = <<"No image data found in the response.">>
    /\ calls[1].style # <<>>
    /\ Count("fixed") = 1
    /\ Ops("fixed")[1].prompt # calls[1].prompt
    /\ Count("image") = 2

\* C5: when the first attempt fails for a non-rate-limit reason and the repair
\* service returns the original prompt, no second image call is made and
\* generateImage fails with the error of the first attempt; an error raised
\* inside the repair call never reaches the caller.
C5_UnchangedRepairSurfacesFirstError ==
    (Count("fixed") = 1 /\ Ops("fixed")[1].prompt = calls[1].prompt) =>
        /\ pc = "done"
        /\ Len(calls) = 1
        /\ Count("image") <= 1
        /\ trace[Len(trace)].op = "fixed"
        /\ result = [kind |-> "err", value |-> <<>>, error |-> Ops("caught")[1].error]
        /\ Count("image") = 1 => result.error # Ops("fixed")[1].error

C5_Witness ==
    /\ Count("image") = 1
    /\ Count("fixed") = 1
    /\ Ops("fixed")[1].prompt = calls[1].prompt
    /\ Ops("fixed")[1].error.status = 429
    /\ pc = "done"

\* an image call was made before event i and failed with a credential error
CredentialFailureAt(i) ==
    /\ trace[i].op = "caught"
    /\ CredentialSignature(trace[i].error)
    /\ \E j \in 1..(i - 1) : trace[j].op = "image"

\* generateImage has failed with the invalid-credential error and event i is
\* the last event
FailsImmediatelyAt(i) ==
    /\ i = Len(trace)
    /\ pc = "done"
    /\ result.kind = "err"
    /\ result.error.message = <<"API Key is invalid or missing. Please log in again.">>

\* C6 as stated: whenever a Gemini image call fails with status 400 or with a
\* message containing 'API Key not found', generateImage fails immediately with
\* the invalid-credential error and no wait, prompt-repair call or image call
\* follows, whatever else the error carries.
C6_Original ==
    \A i \in DOMAIN trace : CredentialFailureAt(i) => FailsImmediatelyAt(i)

\* C6 amended: whenever a Gemini image call fails with status 400 or with a
\* message containing 'API Key not found', and the error does not also carry a
\* rate-limit signature, generateImage fails immediately with the
\* invalid-credential error and no wait, prompt-repair call or image call
\* follows, on the first attempt as well as on a retry.
C6_CredentialFailureIsImmediate ==
    \A i \in DOMAIN trace :
        (CredentialFailureAt(i) /\ ~RateLimitSignature(trace[i].error)) =>
            FailsImmediatelyAt(i)

C6_Witness ==
    /\ Len(calls) = 2
    /\ Count("fix") = 1
    /\ CredentialFailureAt(Len(trace))
    /\ ~RateLimitSignature(trace[Len(trace)].error)
    /\ pc = "done"

\* C7 as stated: whenever the first attempt was rate-limited and the retry made
\* after the wait fails, for any reason, generateImage returns the RateLimited
\* failure.
C7_Original ==
    (FirstCallRateLimited /\ SecondFailed) =>
        /\ pc = "done"
        /\ result.kind = "err"
        /\ result.error.message =
              <<"High traffic detected (Quota Exceeded). Please wait a minute before trying again.">>

\* C7 amended: whenever the first attempt was rate-limited and the retry made
\* after the wait fails, generateImage returns the RateLimited failure if the
\* retry's error carries a rate-limit signature; otherwise it returns the
\* invalid-credential error if the retry's error carries a credential
\* signature, and the retry's own error in every other case.
C7_RetryFailureAfterRateLimit ==
    (FirstCallRateLimited /\ SecondFailed) =>
        /\ pc = "done"
        /\ result.kind = "err"
        /\ result.error =
              IF RateLimitSignature(SecondError)
              THEN [status |-> 0, code |-> 0, message |->
                     <<"High traffic detected (Quota Exceeded). Please wait a minute before trying again.">>]
              ELSE IF CredentialSignature(SecondError)
                   THEN [status |-> 0, code |-> 0, message |->
                          <<"API Key is invalid or missing. Please log in again.">>]
                   ELSE SecondError

C7_Witness ==
    /\ FirstCallRateLimited
    /\ SecondFailed
    /\ SecondError.message = <<"No image data found in the response.">>
    /\ pc = "done"
    /\ result.error = SecondError

C9_DalleWithoutKey ==
    (calls # <<>> /\ calls[1].model = "dall-e-3"
        /\ (~calls[1].openAiKey.present \/ calls[1].openAiKey.text = <<>>)) =>
        /\ pc = "done"
        /\ result.kind = "err"
        /\ result.error.message = <<"Please enter your OpenAI API Key to use DALL-E 3.">>
        /\ trace = <<>>
        /\ Len(calls) = 1

C9_Witness ==
    /\ pc = "done"
    /\ calls[1].model = "dall-e-3"
    /\ calls[1].openAiKey.present
    /\ calls[1].openAiKey.text = <<>>
    /\ ~Blank(calls[1].apiKey)
    /\ result.kind = "err"

\* C10: every call of generateImage with a Gemini-family model and an apiKey
\* that is empty or whitespace-only fails, and no request reaches the image
\* model or the text model, no wait occurs and generateImage is not re-invoked.
C10_GeminiWithBlankKey ==
    (calls # <<>> /\ calls[1].model # "dall-e-3" /\ Blank(calls[1].apiKey)) =>
        /\ pc = "done"
        /\ result.kind = "err"
        /\ Count("image") = 0
        /\ Count("text") = 0
        /\ Count("openai") = 0
        /\ Count("wait") = 0
        /\ Len(calls) = 1

C10_Witness ==
    /\ pc = "done"
    /\ calls[1].model # "dall-e-3"
    /\ calls[1].apiKey = <<" ">>
    /\ Count("fix") = 1
    /\ result.error.message = <<"API Key is missing. Please provide a valid Gemini API Key.">>

\* C11: every call of generateImage with model 'dall-e-3' and an openAiKey that
\* consists only of whitespace fails with a configuration error before any
\* request is sent to the OpenAI endpoint.
C11_DalleWithBlankKey ==
    (calls # <<>> /\ calls[1].model = "dall-e-3"
        /\ calls[1].openAiKey.present /\ calls[1].openAiKey.text # <<>>
        /\ Blank(calls[1].openAiKey.text)) =>
        /\ pc = "done"
        /\ result.kind = "err"
        /\ Count("openai") = 0

\* C12: for model 'dall-e-3' at most one OpenAI request is issued and its
\* success or failure is returned as it is: no wait, no prompt-repair call, no
\* second attempt and no Gemini call occurs, whatever the failure. For a
\* Gemini-family model no request is sent to the OpenAI endpoint.
C12_DalleIsNotRetried ==
    calls # <<>> =>
        IF calls[1].model = "dall-e-3"
        THEN /\ Count("openai") <= 1
             /\ Count("image") = 0 /\ Count("text") = 0
             /\ Count("wait") = 0 /\ Count("fix") = 0 /\ Count("caught") = 0
             /\ Len(calls) = 1
             /\ lastReply.from = "openai" =>
                   /\ pc = "done"
                   /\ result.kind = "ok" <=>
                         (~lastReply.body.rejects /\ lastReply.body.ok
                             /\ lastReply.body.b64 # <<>>)
                   /\ result.kind = "ok" =>
                         result.value = <<"data:", "image/", "png", ";base64,">> \o lastReply.body.b64
                   /\ result.kind = "err" =>
                         result.error.message \notin
                             { <<"High traffic detected (Quota Exceeded). Please wait a minute before trying again.">>,
                               <<"API Key is invalid or missing. Please log in again.">> }
        ELSE Count("openai") = 0

C12_Witness ==
    /\ calls # <<>>
    /\ calls[1].model = "dall-e-3"
    /\ lastReply.from = "openai"
    /\ ~lastReply.body.ok
    /\ lastReply.body.errorMessage = <<"Rate limit 429">>
    /\ pc = "done"

\* the first part, in order, that has inline data of an image MIME type; 0 if none
FirstImageIndex(parts) ==
    LET images == {i \in DOMAIN parts :
                      /\ parts[i].inline
                      /\ parts[i].mimeType # <<>>
                      /\ parts[i].mimeType[1] = "image/"}
    IN  IF images = {} THEN 0 ELSE CHOOSE i \in images : \A j \in images : i <= j

\* the parts of the response received last (none when candidates or parts is absent)
LastParts ==
    IF lastReply.body.response.hasParts THEN lastReply.body.response.parts ELSE <<>>

\* C17: the image result is built from the first part of the response whose
\* inline data has a MIME type starting with 'image/'; other parts are skipped
\* and later image parts ignored; without such a part the call fails with 'No
\* image data found in the response.', which is handled neither as a rate limit
\* nor as an invalid credential.
C17_FirstImagePart ==
    (lastReply.from = "gemini" /\ ~lastReply.body.throws) =>
        LET i == FirstImageIndex(LastParts)
        IN  IF i # 0
            THEN /\ pc = "done"
                 /\ result.kind = "ok"
                 /\ result.value =
                       <<"data:">> \o LastParts[i].mimeType \o <<";base64,">> \o LastParts[i].data
            ELSE /\ Count("caught") = Len(calls)
                 /\ Ops("caught")[Len(calls)].error.message =
                       <<"No image data found in the response.">>
                 /\ IF Len(calls) = 1
                    THEN \* a first attempt: the prompt repair is under way
                         /\ pc = "awaitFix"
                         /\ Count("wait") = 0
                         /\ Count("fix") = 1
                    ELSE \* a retry: the error is thrown as it is
                         /\ pc = "done"
                         /\ trace[Len(trace)].op = "caught"
                         /\ result.kind = "err"
                         /\ result.error.message = <<"No image data found in the response.">>

C17_Witness ==
    /\ lastReply.from = "gemini"
    /\ ~lastReply.body.throws
    /\ LastParts = <<PdfPart, JpegPart, PngPart>>
    /\ result.kind = "ok"

\* C18: generateOpenAIImage sends exactly one POST; a response that is not OK
\* fails with an error carrying the upstream message verbatim; an OK response
\* without b64_json fails with a different error; only an OK response with
\* b64_json yields success.
C18_OpenAiOutcomes ==
    lastReply.from = "openai" =>
        LET r == lastReply.body
        IN  /\ Count("openai") = 1
            /\ pc = "done"
            /\ (~r.rejects /\ ~r.ok /\ r.errorMessage # <<>>) =>
                  /\ result.kind = "err"
                  /\ result.error.message = <<"OpenAI Error: ">> \o r.errorMessage
            /\ (~r.rejects /\ ~r.ok) =>
                  /\ result.kind = "err"
                  /\ result.error.message[1] = "OpenAI Error: "
            /\ (~r.rejects /\ r.ok /\ r.b64 = <<>>) =>
                  /\ result.kind = "err"
                  /\ result.error.message = <<"No image data returned from OpenAI.">>
            /\ result.kind = "ok" <=> (~r.rejects /\ r.ok /\ r.b64 # <<>>)

C18_Witness ==
    /\ lastReply.from = "openai"
    /\ ~lastReply.body.rejects
    /\ lastReply.body.ok
    /\ lastReply.body.b64 = <<>>
    /\ result.kind = "err"

\* C19: every prompt sent to an image provider, on the first attempt and on a
\* retry, is '<style> style. <p>' when there is a style and p otherwise, where
\* p is the unstyled prompt of that attempt: the caller's prompt, or the
\* repaired prompt on a prompt-repair retry, prefixed exactly once.
C19_PrefixedOncePerAttempt ==
    /\ \A k \in 1..Count("image") :
          /\ k <= Len(calls)
          /\ Ops("image")[k].prompt = Prefixed(calls[1].style, calls[k].prompt)
    /\ \A k \in 1..Count("openai") :
          Ops("openai")[k].prompt = Prefixed(calls[1].style, calls[k].prompt)
    /\ Len(calls) = 2 =>
          calls[2].prompt =
             IF Count("fixed") = 1 THEN Ops("fixed")[1].prompt ELSE calls[1].prompt

C19_Witness ==
    /\ Count("image") = 2
    /\ Count("fixed") = 1
    /\ calls[1].style # <<>>
    /\ Ops("image")[2].prompt = calls[1].style \o <<" style. ">> \o Ops("fixed")[1].prompt
    /\ pc = "done"
    /\ result.kind = "ok"

\* C20: the size sent to DALL-E is '1024x1024' for '1:1' and '1024x1792' for
\* '3:4' and for '9:16'; no other size is sent.
C20_DalleSizeTable ==
    \A i \in DOMAIN trace :
        trace[i].op = "openai" =>
            /\ trace[i].ratio = calls[1].ratio
            /\ trace[i].ratio = "1:1" => trace[i].size = "1024x1024"
            /\ trace[i].ratio = "3:4" => trace[i].size = "1024x1792"
            /\ trace[i].ratio = "9:16" => trace[i].size = "1024x1792"
            /\ trace[i].size \in {"1024x1024", "1024x1792"}

C20_Witness ==
    /\ Count("openai") = 1
    /\ Ops("openai")[1].ratio = "3:4"
    /\ Ops("openai")[1].size = "1024x1792"

\* v is t without its leading and trailing whitespace
IsTrimOf(v, t) ==
    /\ v # <<>>
    /\ v[1] # " " /\ v[Len(v)] # " "
    /\ \E i \in 1..Len(t) :
          /\ i + Len(v) - 1 <= Len(t)
          /\ SubSeq(t, i, i + Len(v) - 1) = v
          /\ \A j \in 1..Len(t) : (j < i \/ j > i + Len(v) - 1) => t[j] = " "

\* helper call h got no usable text: no client, a thrown error, absent text, or
\* text that is empty or whitespace only
NoUsableText(h) ==
    \/ Blank(h.apiKey)
    \/ h.reply.body.throws
    \/ ~h.reply.body.text.present
    \/ Blank(h.reply.body.text.text)

\* C13: fixBlockedPrompt and enhancePrompt never reject: with a missing key, a
\* thrown error, absent text, or empty or whitespace-only text they resolve to
\* the original prompt unchanged, and otherwise to the trimmed model text.
C13_RepairAndEnhanceNeverReject ==
    \A fn \in {"fixBlockedPrompt", "enhancePrompt"} :
        LET h == helpers[fn]
        IN  /\ h.result.kind # "err"
            /\ h.pc = "done" =>
                  /\ h.result.kind = "ok"
                  /\ IF NoUsableText(h)
                     THEN h.result.value = h.prompt
                     ELSE IsTrimOf(h.result.value, h.reply.body.text.text)

C13_Witness ==
    /\ helpers["enhancePrompt"].pc = "done"
    /\ helpers["enhancePrompt"].sent = 1
    /\ helpers["enhancePrompt"].reply.body.text = [present |-> TRUE, text |-> <<" ", " ">>]
    /\ helpers["enhancePrompt"].prompt = <<"a">>
    /\ helpers["enhancePrompt"].result.value = <<"a">>

FlowEnds == ui.isGenerating /\ ~ui'.isGenerating

ImageFailed == ui.flow.at = "image" /\ result.kind = "err"

CaptionFailed ==
    /\ ui.flow.at = "caption"
    /\ LET h == helpers["generateCaption"]
       IN  Blank(h.apiKey) \/ h.reply.body.throws \/ ~Truthy(h.reply.body.text)

\* the step on which handleEnhancePrompt leaves its finally block after an
\* enhancePrompt call that got no usable text
EnhanceFails ==
    /\ ui.isEnhancing /\ ~ui'.isEnhancing
    /\ NoUsableText(helpers["enhancePrompt"])

\* a flow ends with an error shown exactly when generateImage failed; an image
\* failure leaves no image and no caption; a caption failure leaves no error,
\* the image and the fallback caption
FlowOutcomeShown ==
    FlowEnds =>
       /\ (ui'.error # Null) <=> ImageFailed
       /\ ImageFailed =>
             /\ Truthy(ui'.error)
             /\ ui'.rawImageUrl = Null
             /\ ui'.caption = <<>>
       /\ CaptionFailed =>
             /\ ui'.error = Null
             /\ ui'.rawImageUrl = Str(result.value)
             /\ ui'.caption = <<"Check out this AI generated image! #AI #Art">>

\* a failed enhance leaves the error and the prompt as they were
FailedEnhanceChangesNothing ==
    EnhanceFails => ui'.error = ui.error /\ ui'.prompt = ui.prompt

\* the flow part alone holds on every step
FlowOutcomeShownAlways == [][FlowOutcomeShown]_vars

\* C15: at the end of every executeGeneration flow the UI error is non-null
\* exactly when generateImage failed (an image failure leaves a non-null error,
\* rawImageUrl null and the caption empty; a caption failure after a successful
\* image leaves error null, the image stored and the fallback caption), and an
\* enhance failure leaves error and prompt unchanged.
C15_FailuresAsShown == [][FlowOutcomeShown /\ FailedEnhanceChangesNothing]_vars

\* C16: for every interleaving of Generate clicks, aspect-ratio changes and
\* network completions at most one executeGeneration flow is in flight: a flow
\* in flight keeps isGenerating true, and while isGenerating is true no step
\* (the Generate button is disabled, an aspect-ratio change only stores the
\* ratio) starts a flow.
C16_OneFlowInFlight ==
    [][ /\ ui'.inFlight <= 1
        /\ ui'.inFlight = 1 => ui'.isGenerating
        /\ ui.isGenerating => ui'.inFlight <= ui.inFlight ]_vars

\* a format button is pressed while a flow is running and an image is shown
C16_Witness ==
    /\ ui.isGenerating
    /\ ui.inFlight = 1
    /\ Truthy(ui.imageUrl)
    /\ ui.prompt # <<>>
    /\ ui.aspectRatio # ui.flow.ratioVal

(* ----------------------- claims about applyWatermark --------------------- *)

\* the form data:<mime>;base64,<payload>, and the two parts of a string of that form
SeparatorAt(s) == CHOOSE i \in 1..Len(s) : s[i] = ";base64," /\ \A j \in 1..(i - 1) : s[j] # ";base64,"

IsDataUri(s) ==
    /\ Len(s) >= 3
    /\ s[1] = "data:"
    /\ \E i \in 3..Len(s) : s[i] = ";base64,"
    /\ s[2] # ";base64,"

MimeOf(s) == SubSeq(s, 2, SeparatorAt(s) - 1)

PayloadOf(s) == SubSeq(s, SeparatorAt(s) + 1, Len(s))

\* C22: applyWatermark(image, '') resolves to the input image string unchanged,
\* for every image, without decoding it (no Image element) and without
\* creating a canvas.
C22_EmptyTextIsIdentity ==
    (watermark.at # "idle" /\ watermark.text = <<>>) =>
       /\ watermark.at = "done"
       /\ watermark.result.kind = "ok"
       /\ watermark.result.value = watermark.base64Image
       /\ ~watermark.image.created
       /\ ~watermark.canvas.created

C22_Witness ==
    /\ watermark.at = "done"
    /\ watermark.text = <<>>
    /\ watermark.base64Image = <<"data:", "image/", "jpeg", ";base64,", "J">>
    /\ watermark.result.value = <<"data:", "image/", "jpeg", ";base64,", "J">>

\* C23: applyWatermark never rejects: when the image fails to decode (onerror)
\* or no 2D context is available, nothing is drawn and the call resolves to
\* the input image string unchanged.
C23_WatermarkNeverRejects ==
    /\ watermark.result.kind # "err"
    /\ (watermark.at = "done" /\ ~watermark.canvas.drawn) =>
          /\ watermark.result.kind = "ok"
          /\ watermark.result.value = watermark.base64Image

\* a call with a text to draw for which getContext('2d') returned null
C23_Witness ==
    /\ watermark.at = "done"
    /\ watermark.text = <<"@instagen.ai">>
    /\ watermark.canvas.created
    /\ ~watermark.canvas.drawn
    /\ watermark.result.value = watermark.base64Image

\* C24: for a non-empty text and a decodable input image, applyWatermark
\* returns a new image encoded in the same raster format (MIME type) as its
\* input, for every format a provider can return.
C24_FormatIsKept ==
    (watermark.at = "done" /\ watermark.canvas.drawn /\ IsDataUri(watermark.base64Image)) =>
       /\ IsDataUri(watermark.result.value)
       /\ watermark.result.value # watermark.base64Image
       /\ MimeOf(watermark.result.value) = MimeOf(watermark.base64Image)

\* C25: for an input image of width w and height h the canvas is exactly w by
\* h, the font size is max(20, 3.5% of w), the padding is 4% of w, and the text
\* is drawn right-aligned and bottom-aligned at (w - padding, h - padding);
\* both paddings come from the width.  Lengths are in thousandths of a pixel.
C25_WatermarkGeometry ==
    watermark.canvas.drawn =>
       LET w == watermark.image.width
           h == watermark.image.height
       IN  /\ watermark.canvas.width = w
           /\ watermark.canvas.height = h
           /\ watermark.canvas.fontSize = (IF 35 * w > 20000 THEN 35 * w ELSE 20000)
           /\ watermark.canvas.textAlign = "right"
           /\ watermark.canvas.textBaseline = "bottom"
           /\ watermark.canvas.text = watermark.text
           /\ watermark.canvas.x = 1000 * w - 40 * w
           /\ watermark.canvas.y = 1000 * h - 40 * w

\* a tall image, wide enough for the font to scale
C25_Witness ==
    /\ watermark.canvas.drawn
    /\ watermark.image.width = 1024
    /\ watermark.image.height = 1792
    /\ watermark.canvas.fontSize = 35840
    /\ watermark.canvas.x = 983040
    /\ watermark.canvas.y = 1751040

\* C21: every successful result of generateImage (either provider, first
\* attempt or retry) and every result of applyWatermark on such a result has
\* the form data:<mime>;base64,<payload>; for Gemini the MIME type and the
\* payload are those of the selected response part, for DALL-E the MIME type
\* is image/png and the payload is the returned b64_json.
C21_ResultsAreDataUris ==
    /\ (pc = "done" /\ result.kind = "ok") =>
          /\ IsDataUri(result.value)
          /\ IF Cur.model = "dall-e-3"
             THEN /\ MimeOf(result.value) = <<"image/", "png">>
                  /\ PayloadOf(result.value) = lastReply.body.b64
             ELSE LET part == LastParts[FirstImageIndex(LastParts)]
                  IN  /\ MimeOf(result.value) = part.mimeType
                      /\ PayloadOf(result.value) = part.data
    /\ (watermark.at = "done" /\ watermark.base64Image = result.value) =>
          /\ watermark.result.kind = "ok"
          /\ IsDataUri(watermark.result.value)

\* the JPEG image of a retry, with the watermark drawn on it
C21_Witness ==
    /\ pc = "done"
    /\ Len(calls) = 2
    /\ result.kind = "ok"
    /\ MimeOf(result.value) = <<"image/", "jpeg">>
    /\ watermark.at = "done"
    /\ watermark.canvas.drawn
    /\ watermark.result.value # result.value

\* a caption request exists only in the caption step of a flow whose image
\* call succeeded and whose image is stored; a caption is shown only with an image
CaptionFollowsImage ==
    /\ helpers["generateCaption"].pc # "idle" =>
          /\ ui.flow.at = "caption"
          /\ pc = "done"
          /\ result.kind = "ok"
          /\ ui.rawImageUrl = Str(result.value)
    /\ ui.flow.at = "image" =>
          /\ helpers["generateCaption"].sent = 0
          /\ ui.caption = <<>>
    /\ ui.caption # <<>> => Truthy(ui.rawImageUrl)

\* C26: in every executeGeneration flow generateCaption is invoked only after
\* generateImage has succeeded in that flow and rawImageUrl has been set; if
\* generateImage fails, no caption request is made and the caption stays empty.
C26_CaptionAfterImage ==
    [][ /\ CaptionFollowsImage'
        /\ (FlowEnds /\ ImageFailed) =>
              /\ helpers'["generateCaption"].pc = "idle"
              /\ ui'.caption = <<>> ]_vars

\* the caption is being requested for an image that came from the retry
C26_Witness ==
    /\ ui.flow.at = "caption"
    /\ helpers["generateCaption"].pc = "await"
    /\ Len(calls) = 2
    /\ ui.rawImageUrl = Str(result.value)

\* C27: every executeGeneration flow that sets isGenerating to true eventually
\* sets it back to false, after success and after any failure of generateImage,
\* provided each network call and wait completes; isGenerating is true only
\* while a flow is in flight, so the Generate button is not disabled forever.
C27_GeneratingEnds ==
    /\ [](ui.isGenerating => (ui.inFlight = 1 /\ ui.flow.at \in {"image", "caption"}))
    /\ (ui.isGenerating ~> ~ui.isGenerating)

\* a flow whose image call failed after the wait and the retry has ended
C27_Witness ==
    /\ ~ui.isGenerating
    /\ ui.inFlight = 0
    /\ ui.error = Str(HighTrafficError.message)
    /\ Len(ui.prompt) > 0

\* C28: every generateImage invocation eventually resolves with an image or
\* rejects with an error, whatever the providers answer, provided each provider
\* call and the 5-second wait complete; generateImage calls itself at most once.
C28_GenerateImageSettles ==
    /\ (pc # "idle") ~> (pc = "done" /\ result.kind \in {"ok", "err"})
    /\ [](Len(calls) <= 2)
    /\ [](\A i \in 1..Len(calls) : calls[i].isRetry <=> i = 2)

\* the rate-limit wait ended, the retry was made, and the invocation settled
C28_Witness ==
    /\ pc = "done"
    /\ result.kind \in {"ok", "err"}
    /\ Len(calls) = 2
    /\ \E i \in 1..Len(trace) : trace[i].op = "wait"

(* ------------------- claims about the watermark effect ------------------ *)

\* C29: once rawImageUrl is null (a new generation started), imageUrl is null
\* and stays null until a new rawImageUrl is set, in every interleaving, also
\* when an applyWatermark call made for the previous image resolves afterwards.
C29_NoImageWithoutRaw == ~Truthy(ui.rawImageUrl) => ~Truthy(ui.imageUrl)

\* a step of the watermark switch or of the watermark text field
WatermarkSettingChanges ==
    \/ ui'.watermarkEnabled # ui.watermarkEnabled
    \/ ui'.watermarkText # ui.watermarkText

\* an applyWatermark call of the effect resolves
WatermarkResolves == ui'.pending # ui.pending /\ ui'.pending \subseteq ui.pending

\* no call of the image service or of a helper starts, and what was generated
\* is kept
ArtifactUntouched ==
    /\ UNCHANGED <<imageVars, helpers>>
    /\ ui'.rawImageUrl = ui.rawImageUrl
    /\ ui'.caption = ui.caption
    /\ ui'.error = ui.error
    /\ ui'.isGenerating = ui.isGenerating
    /\ ui'.flow = ui.flow

\* imageUrl after a change of the settings: nothing without an image, the
\* stored image without a mark, or a new applyWatermark call on the stored image
RecomputedFromRaw ==
    IF ~Truthy(ui.rawImageUrl)
    THEN ui'.imageUrl = Null /\ ui'.pending = ui.pending
    ELSE IF ui'.watermarkEnabled /\ Trim(ui'.watermarkText) # <<>>
         THEN /\ ui'.imageUrl = ui.imageUrl
              /\ ui'.pending = ui.pending \cup {[base64Image |-> ui.rawImageUrl.text,
                                                 text |-> Trim(ui'.watermarkText)]}
         ELSE ui'.imageUrl = ui.rawImageUrl /\ ui'.pending = ui.pending

\* C30: toggling the watermark or editing its text starts no generateImage,
\* generateCaption or other network call and leaves rawImageUrl, caption, error
\* and isGenerating as they are; imageUrl alone is recomputed, from the stored
\* rawImageUrl, also when the applyWatermark call resolves.
C30_WatermarkOnlyRecomputes ==
    [][/\ WatermarkSettingChanges => (ArtifactUntouched /\ RecomputedFromRaw)
       /\ WatermarkResolves => ArtifactUntouched]_vars

\* the mark was requested for the generated image, then the text was cleared:
\* the stored image is on display, with its caption
C30_Witness ==
    /\ Truthy(ui.rawImageUrl)
    /\ ~ui.isGenerating
    /\ ui.caption # <<>>
    /\ ui.watermarkEnabled
    /\ ui.watermarkText = <<" ">>
    /\ ui.imageUrl = ui.rawImageUrl
    /\ [base64Image |-> ui.rawImageUrl.text, text |-> <<"@instagen.ai">>] \in ui.pending

\* C31: after generateImage succeeded and rawImageUrl is set, imageUrl becomes
\* non-null unless a new generation starts first, with the watermark off, on
\* and drawn, or on and the image failing to load; with no applyWatermark call
\* pending a stored image is always on display.
C31_PreviewAppears ==
    /\ ui.rawImageUrl.present ~> (ui.imageUrl.present \/ ~ui.rawImageUrl.present)
    /\ []((ui.rawImageUrl.present /\ ui.pending = {}) => ui.imageUrl.present)

\* the mark was requested for the stored image and the image did not load (or
\* no 2D context was given): the stored image is on display
C31_Witness ==
    /\ ui.rawImageUrl.present
    /\ ui.watermarkEnabled
    /\ Trim(ui.watermarkText) # <<>>
    /\ ui.pending = {}
    /\ ui.imageUrl = ui.rawImageUrl

(* --------------------- claims about executeGeneration ------------------- *)

\* executeGeneration is entered with an empty promptVal
EnteredWithEmptyPrompt == ui'.entered # ui.entered /\ ui'.entered = Str(<<>>)

\* C32: executeGeneration called with an empty prompt returns without changing
\* error, rawImageUrl, caption, isGenerating or any other UI state and without a
\* network call; generateImage is never invoked with an empty prompt.
C32_EmptyPromptDoesNothing ==
    [][/\ EnteredWithEmptyPrompt =>
            /\ ui' = [ui EXCEPT !.entered = Str(<<>>)]
            /\ UNCHANGED <<imageVars, helpers, watermark>>
       /\ \A i \in 1..Len(calls') : calls'[i].prompt # <<>>
       /\ ui'.flow.at # "none" => ui'.flow.promptVal # <<>>]_vars

\* an image and its caption are on display, and executeGeneration was then
\* entered with an empty prompt
C32_Witness ==
    /\ ui.entered = Str(<<>>)
    /\ Truthy(ui.rawImageUrl)
    /\ Truthy(ui.imageUrl)
    /\ ui.caption # <<>>
    /\ ~ui.isGenerating
    /\ ui.prompt = <<>>

\* a step that starts an executeGeneration flow
FlowStarts == ui'.inFlight = ui.inFlight + 1

\* C33: the Gemini provider receives, on the first attempt and on the retry,
\* the ratio the flow was started with; a flow started by a change of the
\* aspect ratio uses the new ratio, and such a change starts a flow only with
\* an image on display, a non-empty prompt and no generation in flight.
C33_RatioOfTheFlow ==
    [][/\ ui'.flow.at = "image" =>
            /\ \A i \in 1..Len(calls') : calls'[i].ratio = ui'.flow.ratioVal
            /\ \A i \in 1..Len(trace') :
                  trace'[i].op = "image" => trace'[i].ratio = ui'.flow.ratioVal
       /\ (FlowStarts /\ ui'.aspectRatio # ui.aspectRatio) =>
            /\ ui'.flow.ratioVal = ui'.aspectRatio
            /\ Truthy(ui.imageUrl)
            /\ ui.prompt # <<>>
            /\ ~ui.isGenerating]_vars

\* a flow in 9:16 is at its second image request
C33_Witness ==
    /\ ui.flow.at = "image"
    /\ ui.flow.ratioVal = "9:16"
    /\ Len(calls) = 2
    /\ pc = "awaitImage"
    /\ Count("image") = 2
    /\ trace[Len(trace)].ratio = "9:16"

\* C34: in every interleaving of changes of the watermark settings and of
\* applyWatermark calls resolving, once no call is pending imageUrl matches the
\* settings: rawImageUrl with the watermark off or its trimmed text empty, and
\* applyWatermark(rawImageUrl, trimmed text) otherwise.
C34_DisplayMatchesSettings ==
    (ui.pending = {} /\ Truthy(ui.rawImageUrl)) =>
        IF ui.watermarkEnabled /\ Trim(ui.watermarkText) # <<>>
        THEN \E how \in WatermarkOutcomes :
                ui.imageUrl = Str(applyWatermark(ui.rawImageUrl.text, Trim(ui.watermarkText), how))
        ELSE ui.imageUrl = ui.rawImageUrl

(* ----------------------- claims about the prompt ------------------------ *)

\* the step on which handleEnhancePrompt resumes after await enhancePrompt(...)
EnhanceCompletes == ui.isEnhancing /\ ~ui'.isEnhancing

\* C35: an edit of the prompt made while an enhance request is in flight is not
\* overwritten when the request completes: what handleEnhancePrompt writes is
\* derived from the prompt that is current when it writes; at most one enhance
\* request is in flight.
C35_EnhanceKeepsEdits ==
    [][/\ EnhanceCompletes => helpers["enhancePrompt"].prompt = ui.prompt
       /\ ui.isEnhancing => helpers'["enhancePrompt"].sent <= 1]_vars

(* ------------------------ claims about the texts ------------------------ *)

\* C36: generateCaption always resolves to a non-empty string: for an absent,
\* empty, whitespace-only or padded model text the result is the trimmed
\* non-empty model text or the fixed fallback caption.
C36_CaptionNeverEmpty ==
    helpers["generateCaption"].pc = "done" =>
        LET h == helpers["generateCaption"]
        IN  /\ h.result.kind = "ok"
            /\ h.result.value # <<>>
            /\ \/ h.result.value = CaptionFallback
               \/ /\ h.reply.from = "text"
                  /\ ~h.reply.body.throws
                  /\ Truthy(h.reply.body.text)
                  /\ h.result.value = Trim(h.reply.body.text.text)

\* C37: when generateImage is invoked with a non-empty prompt, every prompt it
\* sends to an image provider is non-empty, on the first attempt and on the
\* retry, and the repaired prompt of a retry is neither empty nor whitespace
\* only: an empty repair falls back to the original prompt.
C37_PromptsSentAreNonEmpty ==
    (calls # <<>> /\ calls[1].prompt # <<>>) =>
        /\ \A i \in 1..Len(calls) : calls[i].prompt # <<>>
        /\ \A i \in 1..Len(trace) :
              trace[i].op \in {"image", "openai"} => trace[i].prompt # <<>>
        /\ (Len(calls) = 2 /\ calls[2].prompt # calls[1].prompt) =>
              /\ Trim(calls[2].prompt) # <<>>
              /\ calls[2].prompt = Trim(calls[2].prompt)

\* the text model returned a padded repair and the retry was sent with it
C37_Witness ==
    /\ Len(calls) = 2
    /\ calls[1].prompt # <<>>
    /\ calls[2].prompt # calls[1].prompt
    /\ Count("image") = 2
    /\ lastReply.from = "text"
    /\ ~lastReply.body.throws
    /\ lastReply.body.text.present
    /\ lastReply.body.text.text # calls[2].prompt

(* ------------------- claims about the image on display ------------------ *)

\* an image as generateImage returns it: a data URI no canvas has encoded
IsRawImage(s) == IsDataUri(s) /\ \A i \in 1..Len(s) : s[i] # "canvas("

\* the result of drawing a watermark text once on a raw image
IsMarkedOnce(s) ==
    \E k \in 1..Len(s), w \in WatermarkTexts :
        LET b == SubSeq(s, 6, k)
        IN  /\ Trim(w) # <<>>
            /\ IsRawImage(b)
            /\ s = Watermarked(b, Trim(w))

\* C38: in every reachable state of the UI imageUrl is null, a raw image
\* returned by generateImage, or the result of applying the watermark once to
\* such an image; applyWatermark is never given an image that carries a
\* watermark, however often the settings change.
C38_MarkedAtMostOnce ==
    /\ \/ ui.imageUrl = Null
       \/ ui.imageUrl.present /\ IsRawImage(ui.imageUrl.text)
       \/ ui.imageUrl.present /\ IsMarkedOnce(ui.imageUrl.text)
    /\ \A op \in ui.pending : IsRawImage(op.base64Image)
    /\ ui.rawImageUrl = Null \/ IsRawImage(ui.rawImageUrl.text)

\* the stored image is on display with the watermark text drawn on it once
C38_Witness ==
    /\ Truthy(ui.rawImageUrl)
    /\ ui.watermarkEnabled
    /\ ui.pending = {}
    /\ ~ui.isGenerating
    /\ ui.imageUrl = Str(Watermarked(ui.rawImageUrl.text, Trim(ui.watermarkText)))
    /\ ui.imageUrl.present /\ IsMarkedOnce(ui.imageUrl.text)

\* a step of an executeGeneration flow or of the calls it awaits
FlowStep ==
    \/ ui'.flow # ui.flow
    \/ <<pc, calls, trace, result>>' # <<pc, calls, trace, result>>
    \/ helpers'["generateCaption"] # helpers["generateCaption"]

\* C39: a generation flow never changes the prompt state: when generateImage
\* succeeds through the prompt repair, the repaired prompt is used for the
\* second image call only, the prompt field keeps the user's text, and the
\* caption is requested for the submitted prompt.
C39_FlowKeepsPrompt ==
    [][/\ FlowStep => ui'.prompt = ui.prompt
       /\ FlowStarts => ui'.flow.promptVal = ui.prompt
       /\ ui'.flow.at # "none" => ui'.flow.promptVal = calls'[1].prompt
       /\ ui'.flow.at = "caption" =>
             helpers'["generateCaption"].prompt = ui'.flow.promptVal]_vars

\* the image came from the retry with the repaired prompt, the caption is
\* being requested from the text model, and the prompt field is as submitted
C39_Witness ==
    /\ ui.flow.at = "caption"
    /\ result.kind = "ok"
    /\ Len(calls) = 2
    /\ calls[2].prompt # calls[1].prompt
    /\ ui.prompt = calls[1].prompt
    /\ helpers["generateCaption"].pc = "await"
    /\ helpers["generateCaption"].prompt = calls[1].prompt

====
